---- MODULE Spec2Model ----
(***************************************************************************)
(* Model of the command router of pkg/terminal: the radix tree that        *)
(* indexes command names, registration (names and aliases), dispatch       *)
(* through nested routers, the Runner policies and the error kinds; the    *)
(* goroutines of the Runner policies and of the signal handler.            *)
(*                                                                         *)
(* Strings are sequences of bytes; a byte is a natural number.  Byte 0     *)
(* stands for '-', the only byte the flag parser treats specially.         *)
(* A command reference is an index into the table of command objects       *)
(* (cmds); 0 is the nil reference.                                         *)
(***************************************************************************)
EXTENDS Integers, Sequences, FiniteSets, TLC

VARIABLES
    routers,   \* the Router objects, by router id
    cmds,      \* the command objects, by reference
    inserted,  \* per router, the insert calls that returned normally
    last,      \* the last call made on a Router and its outcome
    exec       \* the Runner call or dispatch in progress: its goroutines,
               \* channels, context and timers (Idle when none is modelled)

vars == <<routers, cmds, inserted, last, exec>>

(***************************************************************************)
(* Bounds of the model.                                                    *)
(***************************************************************************)
\* number of command objects created by registrations (flat specification)
MaxCmds == 2
\* number of names and aliases inserted into one index
MaxNames == 4
\* number of leaf command objects created (nested specification)
MaxLeaves == 1
\* length of the command list handed to a Runner (runner specification)
MaxCommands == 3
\* interrupts delivered to the process during one dispatch (lifecycle
\* specification)
MaxInterrupts == 2
\* calls of the cleanup function a signal-handler setup returns
MaxCleanups == 2
\* changes the commands of one Concurrent call make to their contexts
\* (sharing specification)
MaxWrites == 2
\* length of the strings over a two-letter alphabet handed to levenshtein
\* (function specification)
MaxLen == 3
\* number of names inserted into an index in two orders (function
\* specification)
MaxOrder == 3

(***************************************************************************)
(* Strings.                                                                *)
(***************************************************************************)
\* s[:k]
Take(s, k) == SubSeq(s, 1, k)

\* s[k:]
Drop(s, k) == SubSeq(s, k + 1, Len(s))

Min(a, b) == IF a < b THEN a ELSE b

\* strings.HasPrefix(s, p)
HasPrefix(s, p) == Len(s) >= Len(p) /\ Take(s, Len(p)) = p

\* a < b on Go strings: bytewise lexicographic order
RECURSIVE StrLess(_, _)
StrLess(a, b) ==
    IF b = <<>> THEN FALSE
    ELSE IF a = <<>> THEN TRUE
    ELSE IF a[1] # b[1] THEN a[1] < b[1]
    ELSE StrLess(Tail(a), Tail(b))

RECURSIVE cplFrom(_, _, _)
cplFrom(a, b, i) ==
    IF i > Min(Len(a), Len(b)) THEN Min(Len(a), Len(b))
    ELSE IF a[i] # b[i] THEN i - 1
    ELSE cplFrom(a, b, i + 1)

\* length of the common prefix of a and b
commonPrefixLen(a, b) == cplFrom(a, b, 1)

(***************************************************************************)
(* The radix tree (router_tree.go).                                        *)
(***************************************************************************)
\* map write m[k] = v
Put(m, k, v) == [x \in (DOMAIN m) \cup {k} |-> IF x = k THEN v ELSE m[x]]

\* &node{children: make(map[byte]*node)}
EmptyNode == [prefix |-> <<>>, command |-> 0, isEnd |-> FALSE, children |-> <<>>]

\* &node{prefix: name, command: cmd, isEnd: true}
LeafNode(name, cmd) ==
    [prefix |-> name, command |-> cmd, isEnd |-> TRUE, children |-> <<>>]

\* a variant of the split branch that moves the old child below the split
\* with its whole edge label
SplitNode_WholeLabel(child, name, cmd, commonLen) ==
    LET oldSuffix == Drop(child.prefix, commonLen)
        newSuffix == Drop(name, commonLen)
        base == [prefix |-> Take(child.prefix, commonLen), command |-> 0,
                 isEnd |-> FALSE, children |-> Put(<<>>, oldSuffix[1], child)]
    IN  IF newSuffix = <<>>
        THEN [base EXCEPT !.command = cmd, !.isEnd = TRUE]
        ELSE [base EXCEPT !.children =
                 Put(@, newSuffix[1], LeafNode(newSuffix, cmd))]

\* the split branch of insert: an intermediate node at the common prefix
SplitNode(child, name, cmd, commonLen) ==
    LET oldSuffix == Drop(child.prefix, commonLen)
        moved == [child EXCEPT !.prefix = oldSuffix]
        newSuffix == Drop(name, commonLen)
        base == [prefix |-> Take(child.prefix, commonLen), command |-> 0,
                 isEnd |-> FALSE, children |-> Put(<<>>, oldSuffix[1], moved)]
    IN  IF newSuffix = <<>>
        THEN [base EXCEPT !.command = cmd, !.isEnd = TRUE]
        ELSE [base EXCEPT !.children =
                 Put(@, newSuffix[1], LeafNode(newSuffix, cmd))]

\* a variant of insert that overwrites an occupied node instead of panicking
RECURSIVE insert_Overwrite(_, _, _)
insert_Overwrite(n, name, cmd) ==
    IF name = <<>> THEN
        [panic |-> FALSE, node |-> [n EXCEPT !.command = cmd, !.isEnd = TRUE]]
    ELSE
        LET firstByte == name[1] IN
        IF firstByte \notin DOMAIN n.children THEN
            [panic |-> FALSE,
             node |-> [n EXCEPT !.children =
                          Put(@, firstByte, LeafNode(name, cmd))]]
        ELSE
            LET child == n.children[firstByte]
                commonLen == commonPrefixLen(name, child.prefix)
            IN  IF commonLen = Len(child.prefix) THEN
                    LET sub == insert_Overwrite(child, Drop(name, commonLen),
                                                cmd)
                    IN  [panic |-> sub.panic,
                         node |-> [n EXCEPT !.children =
                                      Put(@, firstByte, sub.node)]]
                ELSE
                    [panic |-> FALSE,
                     node |-> [n EXCEPT !.children =
                        Put(@, firstByte,
                            SplitNode(child, name, cmd, commonLen))]]

\* a variant of insert that, where the name leaves the edge label of the
\* child, puts a new leaf in the place of the child instead of splitting
RECURSIVE insert_NoSplit(_, _, _)
insert_NoSplit(n, name, cmd) ==
    IF name = <<>> THEN
        IF n.isEnd THEN [panic |-> TRUE, node |-> n]
        ELSE [panic |-> FALSE,
              node |-> [n EXCEPT !.command = cmd, !.isEnd = TRUE]]
    ELSE
        LET firstByte == name[1] IN
        IF firstByte \notin DOMAIN n.children THEN
            [panic |-> FALSE,
             node |-> [n EXCEPT !.children =
                          Put(@, firstByte, LeafNode(name, cmd))]]
        ELSE
            LET child == n.children[firstByte]
                commonLen == commonPrefixLen(name, child.prefix)
            IN  IF commonLen = Len(child.prefix) THEN
                    LET sub == insert_NoSplit(child, Drop(name, commonLen),
                                              cmd)
                    IN  [panic |-> sub.panic,
                         node |-> [n EXCEPT !.children =
                                      Put(@, firstByte, sub.node)]]
                ELSE
                    [panic |-> FALSE,
                     node |-> [n EXCEPT !.children =
                        Put(@, firstByte, LeafNode(name, cmd))]]

\* insert returns the node after the insertion and whether insert panicked
\* (a panic happens before any write, so the node is then unchanged)
RECURSIVE insert(_, _, _)
insert(n, name, cmd) ==
    IF name = <<>> THEN
        IF n.isEnd THEN [panic |-> TRUE, node |-> n]
        ELSE [panic |-> FALSE,
              node |-> [n EXCEPT !.command = cmd, !.isEnd = TRUE]]
    ELSE
        LET firstByte == name[1] IN
        IF firstByte \notin DOMAIN n.children THEN
            [panic |-> FALSE,
             node |-> [n EXCEPT !.children =
                          Put(@, firstByte, LeafNode(name, cmd))]]
        ELSE
            LET child == n.children[firstByte]
                commonLen == commonPrefixLen(name, child.prefix)
            IN  IF commonLen = Len(child.prefix) THEN
                    LET sub == insert(child, Drop(name, commonLen), cmd) IN
                    [panic |-> sub.panic,
                     node |-> [n EXCEPT !.children =
                                  Put(@, firstByte, sub.node)]]
                ELSE
                    [panic |-> FALSE,
                     node |-> [n EXCEPT !.children =
                        Put(@, firstByte,
                            SplitNode(child, name, cmd, commonLen))]]

\* a variant of search that does not test isEnd at the node it arrives at
RECURSIVE search_NoEndCheck(_, _)
search_NoEndCheck(n, name) ==
    IF name = <<>> THEN [cmd |-> n.command, found |-> TRUE]
    ELSE IF name[1] \notin DOMAIN n.children THEN [cmd |-> 0, found |-> FALSE]
    ELSE LET child == n.children[name[1]] IN
         IF ~HasPrefix(name, child.prefix) THEN [cmd |-> 0, found |-> FALSE]
         ELSE search_NoEndCheck(child, Drop(name, Len(child.prefix)))

\* search returns (command, found)
RECURSIVE search(_, _)
search(n, name) ==
    IF name = <<>> THEN
        IF n.isEnd THEN [cmd |-> n.command, found |-> TRUE]
        ELSE [cmd |-> 0, found |-> FALSE]
    ELSE IF name[1] \notin DOMAIN n.children THEN [cmd |-> 0, found |-> FALSE]
    ELSE LET child == n.children[name[1]] IN
         IF ~HasPrefix(name, child.prefix) THEN [cmd |-> 0, found |-> FALSE]
         ELSE search(child, Drop(name, Len(child.prefix)))

\* the keys of a children map in ascending order (Go ranges over a map in
\* an unspecified order; every use below sorts or deduplicates the result)
RECURSIVE SortedKeys(_)
SortedKeys(S) ==
    IF S = {} THEN <<>>
    ELSE LET m == CHOOSE x \in S : \A y \in S : x <= y
         IN  <<m>> \o SortedKeys(S \ {m})

RECURSIVE collectChildren(_, _)
RECURSIVE collectCommands(_)
collectCommands(n) ==
    (IF n.isEnd /\ n.command # 0 THEN <<n.command>> ELSE <<>>)
        \o collectChildren(n, SortedKeys(DOMAIN n.children))

collectChildren(n, keys) ==
    IF keys = <<>> THEN <<>>
    ELSE collectCommands(n.children[keys[1]])
            \o collectChildren(n, Tail(keys))


(***************************************************************************)
(* Command objects.  A command is a leaf (application logic) or a Router   *)
(* used as a command; routerOf is -1 for a leaf.                           *)
(***************************************************************************)
\* cmd.Name(): a mock returns its name field, a Router its name option
Name(c) ==
    IF cmds[c].routerOf >= 0 THEN routers[cmds[c].routerOf].name
    ELSE cmds[c].name

(***************************************************************************)
(* Edit distance and suggestions (errors.go, router_tree.go).              *)
(***************************************************************************)
\* a variant of the inner loop of levenshtein that takes the minimum of
\* the insertion and the substitution only
RECURSIVE levFill_NoDelete(_, _, _, _, _, _)
levFill_NoDelete(a, b, i, prev, j, curr) ==
    IF j > Len(b) THEN curr
    ELSE LET cost == IF a[i] = b[j] THEN 0 ELSE 1
             ins == curr[j] + 1
             sub == prev[j] + cost
         IN  levFill_NoDelete(a, b, i, prev, j + 1,
                              Append(curr, Min(ins, sub)))

\* the inner loop of levenshtein: fills row i (curr) from row i-1 (prev);
\* a row is kept as a sequence, so prev[j] of the code is prev[j + 1] here
RECURSIVE levFill(_, _, _, _, _, _)
levFill(a, b, i, prev, j, curr) ==
    IF j > Len(b) THEN curr
    ELSE LET cost == IF a[i] = b[j] THEN 0 ELSE 1
             ins == curr[j] + 1
             del == prev[j + 1] + 1
             sub == prev[j] + cost
         IN  levFill(a, b, i, prev, j + 1,
                     Append(curr, Min(ins, Min(del, sub))))

\* the outer loop of levenshtein: rows i..len(a), one row kept (curr is
\* bound to the finished row i before row i+1 is started)
RECURSIVE levRows(_, _, _, _)
levRows(a, b, i, prev) ==
    IF i > Len(a) THEN prev
    ELSE CHOOSE last_row \in
            {levRows(a, b, i + 1, curr) :
                curr \in {levFill(a, b, i, prev, 1, <<i>>)}} : TRUE

levenshtein(x, y) ==
    LET a == IF Len(x) < Len(y) THEN y ELSE x
        b == IF Len(x) < Len(y) THEN x ELSE y
    IN  IF Len(b) = 0 THEN Len(a)
        ELSE levRows(a, b, 1, [j \in 1..(Len(b) + 1) |-> j - 1])[Len(b) + 1]

\* threshold := len(name) / 3; if threshold < 2 { threshold = 2 }
threshold(name) == IF Len(name) \div 3 < 2 THEN 2 ELSE Len(name) \div 3

\* a variant of the less function that puts the farthest match first
scoredLess_Farthest(x, y) ==
    IF x.dist # y.dist THEN x.dist > y.dist
    ELSE StrLess(Name(x.cmd), Name(y.cmd))

\* the less function handed to sort.Slice in findSimilar
scoredLess(x, y) ==
    IF x.dist # y.dist THEN x.dist < y.dist
    ELSE StrLess(Name(x.cmd), Name(y.cmd))

RECURSIVE sortInsert(_, _)
sortInsert(sorted, x) ==
    IF sorted = <<>> THEN <<x>>
    ELSE IF scoredLess(x, sorted[1]) THEN <<x>> \o sorted
    ELSE <<sorted[1]>> \o sortInsert(Tail(sorted), x)

\* sort.Slice(matches, less): elements that compare equal are the same
\* command at the same distance, so the order sort.Slice leaves is unique
RECURSIVE sortMatches(_)
sortMatches(ms) ==
    IF ms = <<>> THEN <<>>
    ELSE sortInsert(sortMatches(Tail(ms)), ms[1])

\* the loop of findSimilar that keeps the commands within the threshold
RECURSIVE scoreAll(_, _)
scoreAll(name, all) ==
    IF all = <<>> THEN <<>>
    ELSE LET d == levenshtein(name, Name(all[1])) IN
         (IF d <= threshold(name)
             THEN <<[cmd |-> all[1], dist |-> d]>> ELSE <<>>)
            \o scoreAll(name, Tail(all))

findSimilar(n, name, maxResults) ==
    IF name = <<>> \/ maxResults <= 0 THEN <<>>
    ELSE LET matches == sortMatches(scoreAll(name, collectCommands(n)))
             cut == IF Len(matches) > maxResults
                       THEN Take(matches, maxResults) ELSE matches
         IN  [i \in 1..Len(cut) |-> cut[i].cmd]

\* Router.suggestNames
suggestNames(r, name) ==
    LET similar == findSimilar(routers[r].root, name, 3)
    IN  [i \in 1..Len(similar) |-> Name(similar[i])]

(***************************************************************************)
(* Error values (errors.go) and the standard error-chain inspection.       *)
(***************************************************************************)
NilErr == [kind |-> "nil"]

NoCommandError == [kind |-> "NoCommandError"]

CommandNotFoundError(name, suggestions) ==
    [kind |-> "CommandNotFoundError", Name |-> name,
     Suggestions |-> suggestions]

CommandError(command, err) ==
    [kind |-> "CommandError", Command |-> command, Err |-> err]

\* a variant of the FlagParseError value that drops the parser's error
FlagParseError_NoCause(command, err) ==
    [kind |-> "FlagParseError", Command |-> command, Err |-> NilErr]

FlagParseError(command, err) ==
    [kind |-> "FlagParseError", Command |-> command, Err |-> err]

\* context.Canceled
Canceled == [kind |-> "context.Canceled"]

\* the error a failing leaf command returns (mockCommand.err)
AppError(c) == [kind |-> "app", id |-> c]

\* the errors of package flag
FlagError(text) == [kind |-> "flag", text |-> text]

RECURSIVE dropNil(_)
dropNil(errs) ==
    IF errs = <<>> THEN <<>>
    ELSE (IF errs[1] = NilErr THEN <<>> ELSE <<errs[1]>>)
            \o dropNil(Tail(errs))

\* errors.Join(errs...)
Join(errs) ==
    IF dropNil(errs) = <<>> THEN NilErr
    ELSE [kind |-> "joinError", errs |-> dropNil(errs)]

\* the errors of the tree err.Unwrap() spans, err itself first
RECURSIVE Chain(_)
RECURSIVE ChainAll(_)
Chain(err) ==
    IF err.kind \in {"CommandError", "FlagParseError"}
        THEN <<err>> \o Chain(err.Err)
    ELSE IF err.kind = "joinError" THEN <<err>> \o ChainAll(err.errs)
    ELSE IF err.kind = "nil" THEN <<>>
    ELSE <<err>>

ChainAll(errs) ==
    IF errs = <<>> THEN <<>> ELSE Chain(errs[1]) \o ChainAll(Tail(errs))

\* errors.As(err, &target) for a target of the given error type
ErrorsAs(err, kind) == \E i \in 1..Len(Chain(err)) : Chain(err)[i].kind = kind

\* errors.Is(err, target)
ErrorsIs(err, target) == \E i \in 1..Len(Chain(err)) : Chain(err)[i] = target


(***************************************************************************)
(* Flag sets.  A command that declares flags declares one boolean flag,    *)
(* named by the one-byte string <<1>>, in a flag.FlagSet that continues    *)
(* on error (flagCommand of the router tests).                             *)
(***************************************************************************)
\* cmd.Flags() # nil; Router.Flags returns nil
Flags(c) == cmds[c].routerOf < 0 /\ cmds[c].flags

\* the nil *flag.FlagSet
NilFlags == [nil |-> TRUE, a |-> FALSE]

\* fs.Parse(arguments): flags are consumed up to the first non-flag token
\* or the terminator "--"; an undefined flag or a malformed one is an error
RECURSIVE Parse(_, _)
Parse(arguments, a) ==
    IF arguments = <<>> THEN [err |-> NilErr, args |-> <<>>, a |-> a]
    ELSE
      LET s == arguments[1] IN
      IF Len(s) < 2 \/ s[1] # 0
        THEN [err |-> NilErr, args |-> arguments, a |-> a]
      ELSE
        LET numMinuses == IF s[2] = 0 THEN 2 ELSE 1
            name == Drop(s, numMinuses)
        IN  IF numMinuses = 2 /\ Len(s) = 2
              THEN [err |-> NilErr, args |-> Tail(arguments), a |-> a]
            ELSE IF name = <<>> \/ name[1] = 0
              THEN [err |-> FlagError("bad flag syntax"),
                    args |-> arguments, a |-> a]
            ELSE IF name = <<1>> THEN Parse(Tail(arguments), TRUE)
            ELSE [err |-> FlagError("flag provided but not defined"),
                  args |-> Tail(arguments), a |-> a]

(***************************************************************************)
(* Execution.  A dispatch is evaluated to its returned error and the       *)
(* trace of what it did: index searches, handlers installed and removed,   *)
(* Runner calls, calls of Router.Run and the run operations of leaf        *)
(* commands with the context each received.  No interrupt arrives and no   *)
(* deadline expires while a dispatch is evaluated.                         *)
(***************************************************************************)
Res(err, trace) == [err |-> err, trace |-> trace]

\* ctx.Err()
ctxErr(ctx) == IF ctx.canceled THEN Canceled ELSE NilErr

\* a nil io.Reader or io.Writer; a stream is named by its role and the
\* router it was configured on (-1: none)
NilStream == [stream |-> "nil", of |-> -1]

\* the nil *Context
NilContext ==
    [nil |-> TRUE, Args |-> <<>>, Flags |-> NilFlags, Stdin |-> NilStream,
     Stdout |-> NilStream, Stderr |-> NilStream, Logger |-> FALSE]

\* Run of a leaf command: a mock returns its err field ("ok": nil, "fail":
\* an error); a cooperative command returns ctx.Err() when ctx is done
LeafRun(c, ctx, tc) ==
    Res(CASE cmds[c].behav = "ok" -> NilErr
          [] cmds[c].behav = "fail" -> AppError(c)
          [] cmds[c].behav = "coop" -> ctxErr(ctx),
        <<[ev |-> "run", cmd |-> c, args |-> tc.Args, flags |-> tc.Flags,
           stdin |-> tc.Stdin, stdout |-> tc.Stdout, stderr |-> tc.Stderr,
           canceled |-> ctx.canceled]>>)

RECURSIVE runContextWith(_, _, _, _, _)
RECURSIVE RouterRun(_, _, _)
RECURSIVE Run(_, _, _)
RECURSIVE SerialExecute(_, _, _)
RECURSIVE ConcurrentExecute(_, _, _, _)
RECURSIVE PipelineExecute(_, _, _)
RECURSIVE Execute(_, _, _, _)

\* cmd.Run(ctx, tc) through the Command interface
Run(c, ctx, tc) ==
    IF cmds[c].routerOf >= 0 THEN RouterRun(cmds[c].routerOf, ctx, tc)
    ELSE LeafRun(c, ctx, tc)

\* a variant of Router.Run that dispatches with the sub-router's own streams
RouterRun_OwnStreams(r, ctx, tc) ==
    LET called == <<[ev |-> "routerRun", router |-> r, nil |-> tc.nil,
                     args |-> tc.Args]>>
    IN  IF tc.nil \/ Len(tc.Args) = 0 THEN Res(NoCommandError, called)
        ELSE LET d == runContextWith(r, ctx, tc.Args, routers[r].stdout,
                                     routers[r].stderr)
             IN  Res(d.err, called \o d.trace)

\* a variant of Router.Run that treats a missing command as success
RouterRun_EmptyOk(r, ctx, tc) ==
    LET called == <<[ev |-> "routerRun", router |-> r, nil |-> tc.nil,
                     args |-> tc.Args]>>
    IN  IF tc.nil \/ Len(tc.Args) = 0 THEN Res(NilErr, called)
        ELSE LET d == runContextWith(r, ctx, tc.Args, tc.Stdout, tc.Stderr)
             IN  Res(d.err, called \o d.trace)

\* a variant of Router.Run that re-points the sub-router's stdout to the
\* stream of the caller before it dispatches
RouterRun_Repoint(r, ctx, tc) ==
    LET called == <<[ev |-> "routerRun", router |-> r, nil |-> tc.nil,
                     args |-> tc.Args]>>
    IN  IF tc.nil \/ Len(tc.Args) = 0 THEN Res(NoCommandError, called)
        ELSE LET d == runContextWith(r, ctx, tc.Args, tc.Stdout, tc.Stderr)
             IN  Res(d.err,
                     called
                     \o <<[ev |-> "write", router |-> r, field |-> "stdout",
                           value |-> tc.Stdout]>>
                     \o d.trace)

\* Router.Run: the Router used as a command of a parent Router
RouterRun(r, ctx, tc) ==
    LET called == <<[ev |-> "routerRun", router |-> r, nil |-> tc.nil,
                     args |-> tc.Args]>>
    IN  IF tc.nil \/ Len(tc.Args) = 0 THEN Res(NoCommandError, called)
        ELSE LET d == runContextWith(r, ctx, tc.Args, tc.Stdout, tc.Stderr)
             IN  Res(d.err, called \o d.trace)

\* SerialRunner.Execute
SerialExecute(ctx, commands, execCtx) ==
    IF commands = <<>> THEN Res(NilErr, <<>>)
    ELSE IF ctx.canceled THEN Res(ctxErr(ctx), <<>>)
    ELSE LET first == Run(commands[1], ctx, execCtx) IN
         IF first.err # NilErr THEN first
         ELSE LET rest == SerialExecute(ctx, Tail(commands), execCtx)
              IN  Res(rest.err, first.trace \o rest.trace)

\* ConcurrentRunner.Execute for the one-element list a dispatch passes:
\* the check before the goroutine is started, then the goroutine, which
\* finds a free slot (maxWorkers >= 1), copies the context and runs
ConcurrentExecute(maxWorkers, ctx, commands, execCtx) ==
    CASE Len(commands) = 0 -> Res(NilErr, <<>>)
      [] Len(commands) = 1 ->
            IF ctx.canceled THEN Res(Join(<<ctxErr(ctx)>>), <<>>)
            ELSE LET cmdCtx == [nil |-> FALSE, Args |-> execCtx.Args,
                                Flags |-> execCtx.Flags,
                                Stdin |-> execCtx.Stdin,
                                Stdout |-> execCtx.Stdout,
                                Stderr |-> execCtx.Stderr,
                                Logger |-> execCtx.Logger]
                     ran == Run(commands[1], ctx, cmdCtx)
                 IN  Res(Join(<<ran.err>>), ran.trace)

\* PipelineRunner.Execute for the lists a dispatch passes
PipelineExecute(ctx, commands, execCtx) ==
    CASE Len(commands) = 0 -> Res(NilErr, <<>>)
      [] Len(commands) = 1 -> Run(commands[1], ctx, execCtx)

\* r.runner.Execute through the Runner interface
Execute(runner, ctx, commands, execCtx) ==
    CASE runner.kind = "Serial" -> SerialExecute(ctx, commands, execCtx)
      [] runner.kind = "Concurrent" ->
            ConcurrentExecute(runner.MaxWorkers, ctx, commands, execCtx)
      [] runner.kind = "Pipeline" -> PipelineExecute(ctx, commands, execCtx)

\* a variant of the tail of runContextWith that passes every error on
wrapCommandError_Bare(cmdName, err) == err

\* a variant of the tail of runContextWith that wraps every error
wrapCommandError_Always(cmdName, err) ==
    IF err = NilErr THEN NilErr ELSE CommandError(cmdName, err)

\* the tail of runContextWith: a CommandError in the chain is passed on,
\* any other error is wrapped
wrapCommandError(cmdName, err) ==
    IF err = NilErr THEN NilErr
    ELSE IF ErrorsAs(err, "CommandError") THEN err
    ELSE CommandError(cmdName, err)

\* Router.runContextWith
runContextWith(r, ctx, args, stdout, stderr) ==
    IF Len(args) = 0 THEN Res(NoCommandError, <<>>)
    ELSE
      LET cmdName == args[1]
          cmdArgs == Tail(args)
          s == search(routers[r].root, cmdName)
          evSearch == <<[ev |-> "search", router |-> r, name |-> cmdName]>>
      IN
      IF ~s.found
        THEN Res(CommandNotFoundError(cmdName, suggestNames(r, cmdName)),
                 evSearch)
      ELSE
        LET cmd == s.cmd
            parsed == IF Flags(cmd) THEN Parse(cmdArgs, FALSE)
                      ELSE [err |-> NilErr, args |-> cmdArgs, a |-> FALSE]
        IN
        IF parsed.err # NilErr
          THEN Res(FlagParseError(cmdName, parsed.err), evSearch)
        ELSE
          LET execCtx ==
                [nil |-> FALSE, Args |-> parsed.args,
                 Flags |-> IF Flags(cmd) THEN [nil |-> FALSE, a |-> parsed.a]
                           ELSE NilFlags,
                 Stdin |-> NilStream, Stdout |-> stdout, Stderr |-> stderr,
                 Logger |-> routers[r].logger]
              sig == routers[r].handleSignal
              tmo == routers[r].timeout > 0
              ctx1 == IF sig THEN [ctx EXCEPT !.signal = TRUE] ELSE ctx
              ctx2 == IF tmo THEN [ctx1 EXCEPT !.deadline = TRUE] ELSE ctx1
              before ==
                (IF sig THEN <<[ev |-> "signal", router |-> r]>> ELSE <<>>)
                \o (IF tmo THEN <<[ev |-> "timeout", router |-> r]>>
                    ELSE <<>>)
                \o <<[ev |-> "execute", router |-> r, cmd |-> cmd]>>
              ran == Execute(routers[r].runner, ctx2, <<cmd>>, execCtx)
              deferred ==
                (IF tmo THEN <<[ev |-> "cancel", router |-> r]>> ELSE <<>>)
                \o (IF sig THEN <<[ev |-> "cleanup", router |-> r]>>
                    ELSE <<>>)
          IN  Res(wrapCommandError(cmdName, ran.err),
                  evSearch \o before \o ran.trace \o deferred)

\* Router.RunContext
RunContext(r, ctx, args) ==
    runContextWith(r, ctx, args, routers[r].stdout, routers[r].stderr)

(***************************************************************************)
(* Registration.  The operators take the Router record and return it with  *)
(* whether the call panicked and the log of the insert calls that returned *)
(* normally; name and declared are cmd.Name() and, for an AliasProvider,   *)
(* cmd.Aliases().  A panic leaves the writes made before it in place.      *)
(***************************************************************************)
\* a variant of addAlias that puts the new alias first
addAlias_Prepend(rt, primary, alias) ==
    [rt EXCEPT !.aliases =
        Put(@, primary,
            <<alias>>
                \o (IF primary \in DOMAIN @ THEN @[primary] ELSE <<>>))]

\* r.aliases[primary] = append(r.aliases[primary], alias)
addAlias(rt, primary, alias) ==
    [rt EXCEPT !.aliases =
        Put(@, primary,
            (IF primary \in DOMAIN @ THEN @[primary] ELSE <<>>)
                \o <<alias>>)]

Out(rt, panic, log) == [router |-> rt, panic |-> panic, log |-> log]

\* a variant of the loop of Register that stores no command under an alias
RECURSIVE registerDeclared_NilCommand(_, _, _, _, _)
registerDeclared_NilCommand(rt, cmd, name, aliases, log) ==
    IF aliases = <<>> THEN Out(rt, FALSE, log)
    ELSE IF aliases[1] = <<>> \/ aliases[1] = name
        THEN registerDeclared_NilCommand(rt, cmd, name, Tail(aliases), log)
    ELSE LET ins == insert(rt.root, aliases[1], 0) IN
         IF ins.panic THEN Out(rt, TRUE, log)
         ELSE registerDeclared_NilCommand(
                addAlias([rt EXCEPT !.root = ins.node], name, aliases[1]),
                cmd, name, Tail(aliases),
                Append(log, [name |-> aliases[1], cmd |-> cmd]))

\* the loop of Register over the aliases the command declares
RECURSIVE registerDeclared(_, _, _, _, _)
registerDeclared(rt, cmd, name, aliases, log) ==
    IF aliases = <<>> THEN Out(rt, FALSE, log)
    ELSE IF aliases[1] = <<>> \/ aliases[1] = name
        THEN registerDeclared(rt, cmd, name, Tail(aliases), log)
    ELSE LET ins == insert(rt.root, aliases[1], cmd) IN
         IF ins.panic THEN Out(rt, TRUE, log)
         ELSE registerDeclared(
                addAlias([rt EXCEPT !.root = ins.node], name, aliases[1]),
                cmd, name, Tail(aliases),
                Append(log, [name |-> aliases[1], cmd |-> cmd]))

\* Router.Register
Register(rt, cmd, name, declared) ==
    IF name = <<>> THEN Out(rt, TRUE, <<>>)
    ELSE LET ins == insert(rt.root, name, cmd) IN
         IF ins.panic THEN Out(rt, TRUE, <<>>)
         ELSE registerDeclared([rt EXCEPT !.root = ins.node],
                               cmd, name, declared,
                               <<[name |-> name, cmd |-> cmd]>>)

\* a variant of the loop of RegisterWithAliases that skips an alias that is
\* empty or equal to the name, as the loop of Register does
RECURSIVE registerSupplied_Skip(_, _, _, _, _)
registerSupplied_Skip(rt, cmd, name, aliases, log) ==
    IF aliases = <<>> THEN Out(rt, FALSE, log)
    ELSE IF aliases[1] = <<>> \/ aliases[1] = name
        THEN registerSupplied_Skip(rt, cmd, name, Tail(aliases), log)
    ELSE LET ins == insert(rt.root, aliases[1], cmd) IN
         IF ins.panic THEN Out(rt, TRUE, log)
         ELSE registerSupplied_Skip(
                addAlias([rt EXCEPT !.root = ins.node], name, aliases[1]),
                cmd, name, Tail(aliases),
                Append(log, [name |-> aliases[1], cmd |-> cmd]))

\* the loop of RegisterWithAliases over the aliases the caller supplies
RECURSIVE registerSupplied(_, _, _, _, _)
registerSupplied(rt, cmd, name, aliases, log) ==
    IF aliases = <<>> THEN Out(rt, FALSE, log)
    ELSE IF aliases[1] = <<>> \/ aliases[1] = name
        THEN Out(rt, TRUE, log)
    ELSE LET ins == insert(rt.root, aliases[1], cmd) IN
         IF ins.panic THEN Out(rt, TRUE, log)
         ELSE registerSupplied(
                addAlias([rt EXCEPT !.root = ins.node], name, aliases[1]),
                cmd, name, Tail(aliases),
                Append(log, [name |-> aliases[1], cmd |-> cmd]))

\* Router.RegisterWithAliases
RegisterWithAliases(rt, cmd, name, declared, aliases) ==
    LET reg == Register(rt, cmd, name, declared) IN
    IF reg.panic THEN reg
    ELSE registerSupplied(reg.router, cmd, name, aliases, reg.log)

\* Router.Lookup
Lookup(r, name) == search(routers[r].root, name)

\* Router.AliasesFor: r.aliases[name], nil for a name without aliases
AliasesFor(r, name) ==
    IF name \in DOMAIN routers[r].aliases THEN routers[r].aliases[name]
    ELSE <<>>

\* the loop of Commands: a command is kept if no command of its name
\* has been seen
RECURSIVE uniqueByName(_, _, _)
uniqueByName(all, seen, unique) ==
    IF all = <<>> THEN unique
    ELSE IF Name(all[1]) \in seen
        THEN uniqueByName(Tail(all), seen, unique)
    ELSE uniqueByName(Tail(all), seen \cup {Name(all[1])},
                      Append(unique, all[1]))

\* a variant of Router.Commands that returns every entry of the index
Commands_All(r) == collectCommands(routers[r].root)

\* Router.Commands
Commands(r) == uniqueByName(collectCommands(routers[r].root), {}, <<>>)


(***************************************************************************)
(* Construction.                                                           *)
(***************************************************************************)
\* terminal.New(WithName(name), WithStdout(..), WithStderr(..),
\*              WithRunner(runner), [WithSignalHandler()], WithTimeout(d))
New(r, name, runner, handleSignal, timeout) ==
    [root |-> EmptyNode,
     stdout |-> [stream |-> "stdout", of |-> r],
     stderr |-> [stream |-> "stderr", of |-> r],
     runner |-> runner, logger |-> FALSE, aliases |-> <<>>,
     name |-> name, handleSignal |-> handleSignal, timeout |-> timeout,
     gracePeriod |-> 5]

\* &SerialRunner{}, WithMaxWorkers(n), &PipelineRunner{}
SerialRunner == [kind |-> "Serial", MaxWorkers |-> 0]
ConcurrentRunner(n) == [kind |-> "Concurrent", MaxWorkers |-> n]
PipelineRunner == [kind |-> "Pipeline", MaxWorkers |-> 0]

\* &mockCommand{name: .., flags: .., err: ..} or an aliasCommand
Leaf(name, declared, flags, behav) ==
    [name |-> name, declared |-> declared, flags |-> flags,
     behav |-> behav, routerOf |-> -1]

\* context.Background() or an already cancelled context
Background == [canceled |-> FALSE, signal |-> FALSE, deadline |-> FALSE]
CanceledCtx == [canceled |-> TRUE, signal |-> FALSE, deadline |-> FALSE]

\* the names and aliases in the index of router r
NameCount(r) == Len(inserted[r])

(***************************************************************************)
(* The flat specification: one Router, commands registered under names     *)
(* that share prefixes, looked up and dispatched.                          *)
(***************************************************************************)
\* names of commands and aliases; the empty string is the invalid name
NamePool ==
    {<<>>, <<1>>, <<1, 1>>, <<1, 2>>, <<1, 1, 2>>, <<2>>,
     <<1, 1, 1, 1, 1, 1>>}

\* first tokens looked up or dispatched
QueryPool ==
    NamePool \cup {<<2, 1>>, <<1, 1, 1, 1, 1, 1, 1, 1, 1>>}

\* alias lists a command declares: none, one alias, and a list with an
\* empty alias among usable ones
DeclaredLists == {<<>>, <<<<1>>>>, <<<<>>, <<1, 2>>, <<2>>>>}

\* alias lists a caller supplies
SuppliedLists ==
    {<<>>} \cup {<<a>> : a \in NamePool}
        \cup {<<a, b>> : a \in {<<1>>, <<2>>}, b \in {<<1>>, <<1, 2>>}}

\* token lists after the command name
RestPool == {<<>>, <<<<1>>>>, <<<<0, 1>>, <<2>>>>}

\* no Runner call or dispatch is modelled step by step
Idle == [kind |-> "idle"]

Init ==
    /\ routers = [r \in {0} |-> New(0, <<>>, SerialRunner, FALSE, 0)]
    /\ cmds = <<>>
    /\ inserted = [r \in {0} |-> <<>>]
    /\ last = [op |-> "none"]
    /\ exec = Idle

\* registration is the startup phase of the process: a panic ends the
\* process, and so does the return of the call the process was started for
Startup ==
    \/ last.op = "none"
    \/ last.op \in {"Register", "RegisterWithAliases"} /\ ~last.panic

\* the state after a registration call on router r for command c
Registered(r, c, obj, out, op, aliases) ==
    /\ NameCount(r) + Len(out.log) <= MaxNames
    /\ routers' = [routers EXCEPT ![r] = out.router]
    /\ cmds' = IF out.log = <<>> THEN cmds ELSE Append(cmds, obj)
    /\ inserted' = [inserted EXCEPT ![r] = @ \o out.log]
    /\ last' = [op |-> op, router |-> r, cmd |-> c, name |-> obj.name,
                declared |-> obj.declared, aliases |-> aliases,
                panic |-> out.panic]
    /\ UNCHANGED exec

\* router.Register(&aliasCommand{name, declared})
DoRegister(r, name, declared, flags, behav) ==
    /\ Startup
    /\ LET c == Len(cmds) + 1
           obj == Leaf(name, declared, flags, behav)
       IN  Registered(r, c, obj, Register(routers[r], c, name, declared),
                      "Register", <<>>)

\* router.RegisterWithAliases(&mockCommand{name}, aliases...)
DoRegisterWithAliases(r, name, aliases, flags, behav) ==
    /\ Startup
    /\ LET c == Len(cmds) + 1
           obj == Leaf(name, <<>>, flags, behav)
       IN  Registered(r, c, obj,
                      RegisterWithAliases(routers[r], c, name, <<>>, aliases),
                      "RegisterWithAliases", aliases)

\* router.Lookup(name)
DoLookup(r, name) ==
    /\ Startup
    /\ last' = [op |-> "Lookup", router |-> r, name |-> name,
                res |-> Lookup(r, name)]
    /\ UNCHANGED <<routers, cmds, inserted, exec>>

\* an assignment to a field of a Router made during a dispatch
IsWrite(e) == e.ev = "write"

\* the Routers after the assignments a dispatch made to their fields
RECURSIVE Written(_, _)
Written(rs, writes) ==
    IF writes = <<>> THEN rs
    ELSE Written([rs EXCEPT ![writes[1].router][writes[1].field] =
                                writes[1].value],
                 Tail(writes))

\* router.RunContext(ctx, args)
DoRunContext(r, ctx, args) ==
    /\ Startup
    /\ LET res == RunContext(r, ctx, args) IN
       /\ last' = [op |-> "RunContext", router |-> r, ctx |-> ctx,
                   args |-> args, res |-> res]
       /\ routers' = Written(routers, SelectSeq(res.trace, IsWrite))
    /\ UNCHANGED <<cmds, inserted, exec>>

\* router.Commands()
DoCommands(r) ==
    /\ Startup
    /\ last' = [op |-> "Commands", router |-> r, res |-> Commands(r)]
    /\ UNCHANGED <<routers, cmds, inserted, exec>>

Next ==
    \/ /\ Len(cmds) < MaxCmds
       /\ \E n \in NamePool, d \in DeclaredLists :
             DoRegister(0, n, d, d = <<<<1>>>>, "ok")
    \/ /\ Len(cmds) < MaxCmds
       /\ \E n \in NamePool, as \in SuppliedLists :
             DoRegisterWithAliases(0, n, as, FALSE, "ok")
    \/ \E n \in QueryPool : DoLookup(0, n)
    \/ \E n \in QueryPool, rest \in RestPool :
          DoRunContext(0, Background, <<n>> \o rest)
    \/ DoCommands(0)

Spec == Init /\ [][Next]_vars

(***************************************************************************)
(* The nested specification: a root Router (0) and sub-routers registered  *)
(* as commands, each with its own Runner, streams and lifecycle options;   *)
(* leaf commands with and without flags; dispatch from the root with a     *)
(* live or an already cancelled context.                                   *)
(***************************************************************************)
SubRouters == {1, 2}

Runners == {SerialRunner, ConcurrentRunner(2), PipelineRunner}

\* the name option of sub-router r is the one-byte string <<r>>; leaf
\* commands are named <<3>>; <<4>> is never registered
LeafName == <<3>>

\* the kinds of leaf commands: (declares flags, behaviour of Run)
LeafKinds ==
    {<<TRUE, "ok">>, <<FALSE, "fail">>, <<FALSE, "coop">>}

\* the command names a token list starts with
Paths ==
    {<<>>, <<<<3>>>>, <<<<1>>>>, <<<<1>>, <<3>>>>,
     <<<<1>>, <<4>>>>, <<<<1>>, <<2>>>>, <<<<1>>, <<2>>, <<3>>>>,
     <<<<2>>, <<3>>>>}

\* the tokens that follow: positionals, the declared flag <<0, 1>>, the
\* undeclared flag <<0, 2>> and the terminator <<0, 0>>
Rests ==
    {<<>>, <<<<3>>>>, <<<<0, 1>>, <<3>>>>, <<<<0, 2>>>>,
     <<<<0, 0>>, <<0, 1>>>>}

\* the execution contexts a caller hands to Router.Run
Contexts ==
    {NilContext,
     [NilContext EXCEPT !.nil = FALSE],
     [NilContext EXCEPT !.nil = FALSE, !.Args = <<LeafName, <<3>>>>,
                        !.Stdout = [stream |-> "stdout", of |-> -1],
                        !.Stderr = [stream |-> "stderr", of |-> -1]]}

\* the Router object of a sub-router, as a command
RouterCommand(r) ==
    [name |-> <<>>, declared |-> <<>>, flags |-> FALSE, behav |-> "router",
     routerOf |-> r]

NestInit ==
    /\ \E top \in Runners, sub \in Runners :
          routers = [r \in {0} \cup SubRouters |->
                        New(r, IF r = 0 THEN <<>> ELSE <<r>>,
                            IF r = 0 THEN top ELSE sub,
                            r # 1, IF r = 0 THEN 1 ELSE 0)]
    /\ cmds = [c \in 1..Cardinality(SubRouters) |-> RouterCommand(c)]
    /\ inserted = [r \in {0} \cup SubRouters |-> <<>>]
    /\ last = [op |-> "none"]
    /\ exec = Idle

\* parent.Register(sub): a Router registered as a command of another
DoRegisterRouter(p, c) ==
    /\ Startup
    /\ LET out == Register(routers[p], c, Name(c), <<>>) IN
       /\ routers' = [routers EXCEPT ![p] = out.router]
       /\ inserted' = [inserted EXCEPT ![p] = @ \o out.log]
       /\ last' = [op |-> "Register", router |-> p, cmd |-> c,
                   name |-> Name(c), declared |-> <<>>, aliases |-> <<>>,
                   panic |-> out.panic]
    /\ UNCHANGED <<cmds, exec>>

\* sub.Run(ctx, tc): a Router called as a command
DoRun(r, ctx, tc) ==
    /\ Startup
    /\ LET res == RouterRun(r, ctx, tc) IN
       /\ last' = [op |-> "Run", router |-> r, ctx |-> ctx, tc |-> tc,
                   res |-> res]
       /\ routers' = Written(routers, SelectSeq(res.trace, IsWrite))
    /\ UNCHANGED <<cmds, inserted, exec>>

NestNext ==
    \/ \E p \in {0} \cup SubRouters, c \in SubRouters :
          p < c /\ DoRegisterRouter(p, c)
    \/ /\ Len(cmds) < Cardinality(SubRouters) + MaxLeaves
       /\ \E p \in {0} \cup SubRouters, k \in LeafKinds :
             DoRegister(p, LeafName, <<>>, k[1], k[2])
    \/ \E ctx \in {Background, CanceledCtx}, p \in Paths, rest \in Rests :
          /\ ctx.canceled => rest = <<>>
          /\ DoRunContext(0, ctx, p \o rest)
    \/ \E r \in SubRouters, tc \in Contexts : DoRun(r, Background, tc)

SpecNest == NestInit /\ [][NestNext]_vars


(***************************************************************************)
(* The runner specification: one call of Runner.Execute on a list of       *)
(* commands, step by step.  cmds is the list; exec holds the goroutines    *)
(* of the call: main is the position of the caller, task[i] the state of   *)
(* command i and of the goroutine that runs it.  The context of the call   *)
(* can be cancelled at any moment.                                         *)
(*                                                                         *)
(* The commands are those of the runner tests: a mock that returns nil     *)
(* ("ok") or its error ("fail"), a writer of a fixed string ("write"), a   *)
(* reader that copies its input behind a prefix ("read") and a filter that *)
(* upper-cases its input ("upper").                                        *)
(***************************************************************************)
\* errors.New("stdin is nil") of readerCommand and uppercaseCommand
StdinNil == [kind |-> "stdinNil"]

\* writerCommand.output, readerCommand.prefix and the external input
Output == <<1, 2>>
Prefix == <<9>>
Input == <<3>>

\* bytes.ToUpper: bytes 1..3 are lower-case letters, 5..7 their upper case
ToUpper(data) ==
    [k \in 1..Len(data) |-> IF data[k] \in 1..3 THEN data[k] + 4 ELSE data[k]]

\* what a command has read when io.ReadAll returns, or a nil Stdin
NoInput == [nil |-> TRUE, data |-> <<>>, err |-> NilErr]
Read(data, err) == [nil |-> FALSE, data |-> data, err |-> err]

\* no Write call
NoOutput == [some |-> FALSE, data |-> <<>>]
Write(data) == [some |-> TRUE, data |-> data]

\* the body of Run of the test commands, given what the command read:
\* the error it returns if its write succeeds and the one Write it makes
Effect(c, in) ==
    LET k == cmds[c].behav IN
    CASE k = "ok" -> [err |-> NilErr, out |-> NoOutput]
      [] k = "fail" -> [err |-> AppError(c), out |-> NoOutput]
      [] k = "write" -> [err |-> NilErr, out |-> Write(Output)]
      [] k \in {"read", "upper"} ->
            IF in.nil THEN [err |-> StdinNil, out |-> NoOutput]
            ELSE IF in.err # NilErr THEN [err |-> in.err, out |-> NoOutput]
            ELSE [err |-> NilErr,
                  out |-> Write(IF k = "read" THEN Prefix \o in.data
                                ELSE ToUpper(in.data))]

\* the command reads its Stdin
Reads(c) == cmds[c].behav \in {"read", "upper"}

\* a command not yet run; calls counts the invocations of its Run
IdleTask ==
    [pc |-> "idle", calls |-> 0, buf |-> <<>>, out |-> NoOutput,
     err |-> NilErr]

\* the state of the write end of a pipe: open, closed by Close (eof) or
\* closed by CloseWithError(err)
Open == [state |-> "open", err |-> NilErr]
Closed(err) == [state |-> IF err = NilErr THEN "eof" ELSE "err", err |-> err]

\* io.Pipe(): pending is the Write in progress, which returns when a
\* reader has taken its bytes; written and read are the bytes that went
\* in and came out so far
NewPipe ==
    [pending |-> NoOutput, closed |-> Open, written |-> <<>>, read |-> <<>>]

\* the state at the call runner.Execute(ctx, commands, execCtx) with
\* execCtx.Stdin = stdin and execCtx.Stdout a buffer (sink)
Call(runner, n, stdin) ==
    [kind |-> runner.kind, MaxWorkers |-> runner.MaxWorkers,
     canceled |-> FALSE, main |-> "loop", i |-> 1,
     task |-> [c \in 1..n |-> IdleTask],
     sem |-> 0, errs |-> <<>>,
     pipes |-> [k \in 1..(n - 1) |-> NewPipe],
     stdin |-> stdin, sink |-> <<>>, result |-> NilErr]

\* the kinds of commands run under each Runner; the commands that read
\* and write streams are those of the pipeline tests
KindsOf(runner) ==
    IF runner.kind = "Pipeline" THEN {"ok", "fail", "write", "read", "upper"}
    ELSE {"ok", "fail"}

\* runtime.NumCPU() of the machine
NumCPU == 2

\* the capacity of the semaphore of ConcurrentRunner.Execute
Workers == IF exec.MaxWorkers <= 0 THEN NumCPU ELSE exec.MaxWorkers

NumCommands == Len(cmds)

RunInit ==
    /\ routers = <<>>
    /\ inserted = <<>>
    /\ last = [op |-> "none"]
    /\ \E runner \in {SerialRunner, ConcurrentRunner(0), ConcurrentRunner(1),
                      ConcurrentRunner(2), PipelineRunner},
          n \in 0..MaxCommands, stdin \in {NoInput, Read(Input, NilErr)} :
          \E kinds \in [1..n -> KindsOf(runner)] :
             /\ runner.kind # "Pipeline" => stdin = NoInput
             /\ cmds = [c \in 1..n |-> Leaf(<<c>>, <<>>, FALSE, kinds[c])]
             /\ exec = Call(runner, n, stdin)

\* ctx is cancelled by its owner while the call is in progress
CancelCtx ==
    /\ exec.main # "returned"
    /\ ~exec.canceled
    /\ exec' = [exec EXCEPT !.canceled = TRUE]
    /\ UNCHANGED <<routers, cmds, inserted, last>>

\* Execute returns err
Returned(e, err) == [e EXCEPT !.main = "returned", !.result = err]

\* Run of command c is entered
Entered(e, c) ==
    [e EXCEPT !.task[c].pc = "running", !.task[c].calls = @ + 1]

\* a command run directly by the caller of Execute, with the streams of
\* execCtx: its Write goes to the buffer
Finished(e, c) ==
    LET eff == Effect(c, e.stdin) IN
    [e EXCEPT !.task[c].pc = "done", !.task[c].err = eff.err,
              !.sink = IF eff.out.some THEN @ \o eff.out.data ELSE @]

(***************************************************************************)
(* SerialRunner.Execute.                                                   *)
(***************************************************************************)
\* a variant of the head of the loop without the select on ctx.Done()
SerialStep_NoCheck ==
    /\ exec.kind = "Serial"
    /\ exec.main = "loop"
    /\ exec' = IF exec.i > NumCommands THEN Returned(exec, NilErr)
               ELSE [Entered(exec, exec.i) EXCEPT !.main = "run"]
    /\ UNCHANGED <<routers, cmds, inserted, last>>

\* the head of the loop: the select on ctx.Done(), then cmd.Run is entered
SerialStep ==
    /\ exec.kind = "Serial"
    /\ exec.main = "loop"
    /\ exec' = IF exec.i > NumCommands THEN Returned(exec, NilErr)
               ELSE IF exec.canceled THEN Returned(exec, Canceled)
               ELSE [Entered(exec, exec.i) EXCEPT !.main = "run"]
    /\ UNCHANGED <<routers, cmds, inserted, last>>

\* a variant of the return of cmd.Run in which an error does not end the
\* loop
SerialReturn_KeepGoing ==
    /\ exec.kind = "Serial"
    /\ exec.main = "run"
    /\ exec' = [Finished(exec, exec.i) EXCEPT !.main = "loop", !.i = @ + 1]
    /\ UNCHANGED <<routers, cmds, inserted, last>>

\* cmd.Run returns: its error ends the loop
SerialReturn ==
    /\ exec.kind = "Serial"
    /\ exec.main = "run"
    /\ LET done == Finished(exec, exec.i)
           err == done.task[exec.i].err
       IN  exec' = IF err # NilErr THEN Returned(done, err)
                   ELSE [done EXCEPT !.main = "loop", !.i = @ + 1]
    /\ UNCHANGED <<routers, cmds, inserted, last>>

(***************************************************************************)
(* ConcurrentRunner.Execute.                                               *)
(***************************************************************************)
\* the loop over the commands: the check of ctx, then the goroutine
ConcurrentSpawn ==
    /\ exec.kind = "Concurrent"
    /\ exec.main = "loop"
    /\ exec' = IF NumCommands = 0 THEN Returned(exec, NilErr)
               ELSE IF exec.i > NumCommands THEN [exec EXCEPT !.main = "wait"]
               ELSE IF exec.canceled
                   THEN [exec EXCEPT !.errs = Append(@, Canceled),
                                     !.main = "wait"]
               ELSE [exec EXCEPT !.task[exec.i].pc = "select", !.i = @ + 1]
    /\ UNCHANGED <<routers, cmds, inserted, last>>

\* a variant of the select of a worker that does not wait for a slot
WorkerAcquire_NoLimit(c) ==
    /\ exec.kind = "Concurrent"
    /\ exec.task[c].pc = "select"
    /\ exec' = [Entered(exec, c) EXCEPT !.sem = @ + 1]
    /\ UNCHANGED <<routers, cmds, inserted, last>>

\* the select of a worker takes a slot of the semaphore; the worker copies
\* the context and enters Run
WorkerAcquire(c) ==
    /\ exec.kind = "Concurrent"
    /\ exec.task[c].pc = "select"
    /\ exec.sem < Workers
    /\ exec' = [Entered(exec, c) EXCEPT !.sem = @ + 1]
    /\ UNCHANGED <<routers, cmds, inserted, last>>

\* the select of a worker takes ctx.Done(): the worker records ctx.Err()
WorkerCancelled(c) ==
    /\ exec.kind = "Concurrent"
    /\ exec.task[c].pc = "select"
    /\ exec.canceled
    /\ exec' = [exec EXCEPT !.task[c].pc = "done",
                            !.errs = Append(@, Canceled)]
    /\ UNCHANGED <<routers, cmds, inserted, last>>

\* a variant of the return of Run in a worker that stores the error in
\* place of the errors recorded before
WorkerReturn_Overwrite(c) ==
    /\ exec.kind = "Concurrent"
    /\ exec.task[c].pc = "running"
    /\ LET done == Finished(exec, c)
           err == done.task[c].err
       IN  exec' = [done EXCEPT !.sem = @ - 1,
                       !.errs = IF err # NilErr THEN <<err>> ELSE @]
    /\ UNCHANGED <<routers, cmds, inserted, last>>

\* a variant of the return of Run in a worker without the deferred receive
\* from the semaphore: the slot stays taken
WorkerReturn_KeepSlot(c) ==
    /\ exec.kind = "Concurrent"
    /\ exec.task[c].pc = "running"
    /\ LET done == Finished(exec, c)
           err == done.task[c].err
       IN  exec' = [done EXCEPT
                       !.errs = IF err # NilErr THEN Append(@, err) ELSE @]
    /\ UNCHANGED <<routers, cmds, inserted, last>>

\* Run returns in a worker: the error is recorded, the slot released and
\* the wait group told
WorkerReturn(c) ==
    /\ exec.kind = "Concurrent"
    /\ exec.task[c].pc = "running"
    /\ LET done == Finished(exec, c)
           err == done.task[c].err
       IN  exec' = [done EXCEPT !.sem = @ - 1,
                       !.errs = IF err # NilErr THEN Append(@, err) ELSE @]
    /\ UNCHANGED <<routers, cmds, inserted, last>>

\* every goroutine started has told the wait group
Joined ==
    \A c \in 1..NumCommands : exec.task[c].pc \in {"idle", "done"}

\* a variant of the end of Execute that does not wait for the goroutines
ConcurrentWait_NoJoin ==
    /\ exec.kind = "Concurrent"
    /\ exec.main = "wait"
    /\ exec' = Returned(exec, Join(exec.errs))
    /\ UNCHANGED <<routers, cmds, inserted, last>>

\* wg.Wait() returns; the errors are joined
ConcurrentWait ==
    /\ exec.kind = "Concurrent"
    /\ exec.main = "wait"
    /\ Joined
    /\ exec' = Returned(exec, Join(exec.errs))
    /\ UNCHANGED <<routers, cmds, inserted, last>>

(***************************************************************************)
(* PipelineRunner.Execute.                                                 *)
(***************************************************************************)
\* the head of Execute: the empty list, the single command run directly,
\* and the loop that starts one goroutine per stage
PipelineSpawn ==
    /\ exec.kind = "Pipeline"
    /\ exec.main = "loop"
    /\ exec' = IF NumCommands = 0 THEN Returned(exec, NilErr)
               ELSE IF NumCommands = 1
                   THEN [Entered(exec, 1) EXCEPT !.main = "run"]
               ELSE IF exec.i > NumCommands THEN [exec EXCEPT !.main = "wait"]
               ELSE [exec EXCEPT !.task[exec.i].pc = "spawned", !.i = @ + 1]
    /\ UNCHANGED <<routers, cmds, inserted, last>>

\* a variant of the single-command case that drops the command's error
PipelineDirect_DropError ==
    /\ exec.kind = "Pipeline"
    /\ exec.main = "run"
    /\ exec' = Returned(Finished(exec, 1), NilErr)
    /\ UNCHANGED <<routers, cmds, inserted, last>>

\* return commands[0].Run(ctx, execCtx)
PipelineDirect ==
    /\ exec.kind = "Pipeline"
    /\ exec.main = "run"
    /\ LET done == Finished(exec, 1)
       IN  exec' = Returned(done, done.task[1].err)
    /\ UNCHANGED <<routers, cmds, inserted, last>>

\* a variant of the wiring in which every stage writes to execCtx.Stdout
Proceed_ToSink(e, c, in) ==
    LET eff == Effect(c, in) IN
    IF ~eff.out.some
        THEN [e EXCEPT !.task[c].pc = "ret", !.task[c].err = eff.err]
    ELSE [e EXCEPT !.task[c].pc = "ret", !.task[c].err = eff.err,
                   !.sink = @ \o eff.out.data]

\* stage c has its input: it makes its Write, to the next pipe or, in the
\* last stage, to execCtx.Stdout, or goes on to return
Proceed(e, c, in) ==
    LET eff == Effect(c, in) IN
    IF ~eff.out.some
        THEN [e EXCEPT !.task[c].pc = "ret", !.task[c].err = eff.err]
    ELSE IF c = NumCommands
        THEN [e EXCEPT !.task[c].pc = "ret", !.task[c].err = eff.err,
                       !.sink = @ \o eff.out.data]
    ELSE [e EXCEPT !.task[c].pc = "writing", !.task[c].err = eff.err,
                   !.pipes[c].pending = eff.out,
                   !.pipes[c].written = @ \o eff.out.data]

\* the goroutine of stage c builds its context and enters Run; a command
\* that reads from a pipe starts io.ReadAll
StageStart(c) ==
    /\ exec.kind = "Pipeline"
    /\ exec.task[c].pc = "spawned"
    /\ exec' = IF Reads(c) /\ c > 1
                   THEN [Entered(exec, c) EXCEPT !.task[c].pc = "read"]
               ELSE Proceed(Entered(exec, c), c,
                            IF c = 1 THEN exec.stdin ELSE NoInput)
    /\ UNCHANGED <<routers, cmds, inserted, last>>

\* one Read of io.ReadAll on the pipe from stage c-1: the bytes of the
\* pending Write, or the end of the stream, or the error the pipe was
\* closed with; it blocks while the pipe is open and nothing is pending
StageRead(c) ==
    /\ exec.kind = "Pipeline"
    /\ exec.task[c].pc = "read"
    /\ LET p == exec.pipes[c - 1] IN
       \/ /\ p.pending.some
          /\ exec' = [exec EXCEPT !.task[c].buf = @ \o p.pending.data,
                                  !.pipes[c - 1].read = @ \o p.pending.data,
                                  !.pipes[c - 1].pending = NoOutput]
       \/ /\ ~p.pending.some
          /\ p.closed.state # "open"
          /\ exec' = Proceed(exec, c, Read(exec.task[c].buf, p.closed.err))
    /\ UNCHANGED <<routers, cmds, inserted, last>>

\* the Write of stage c returns: a reader has taken its bytes
StageWritten(c) ==
    /\ exec.kind = "Pipeline"
    /\ exec.task[c].pc = "writing"
    /\ ~exec.pipes[c].pending.some
    /\ exec' = [exec EXCEPT !.task[c].pc = "ret"]
    /\ UNCHANGED <<routers, cmds, inserted, last>>

\* a variant of the return of a stage that always closes the write end
\* with Close()
StageReturn_CloseClean(c) ==
    /\ exec.kind = "Pipeline"
    /\ exec.task[c].pc = "ret"
    /\ LET sent == [exec EXCEPT !.task[c].pc = "done",
                       !.errs = Append(@, [index |-> c,
                                           err |-> exec.task[c].err])]
       IN  exec' = IF c < NumCommands
                       THEN [sent EXCEPT !.pipes[c].closed = Closed(NilErr)]
                   ELSE sent
    /\ UNCHANGED <<routers, cmds, inserted, last>>

\* Run returns in stage c: the write end of its pipe is closed, with the
\* error if there is one, the result is sent and the wait group told
StageReturn(c) ==
    /\ exec.kind = "Pipeline"
    /\ exec.task[c].pc = "ret"
    /\ LET sent == [exec EXCEPT !.task[c].pc = "done",
                       !.errs = Append(@, [index |-> c,
                                           err |-> exec.task[c].err])]
       IN  exec' = IF c < NumCommands
                       THEN [sent EXCEPT !.pipes[c].closed =
                                            Closed(exec.task[c].err)]
                   ELSE sent
    /\ UNCHANGED <<routers, cmds, inserted, last>>

\* errs[res.index] = res.err for the results in the channel
byStage(results, n) ==
    [c \in 1..n |->
        LET k == CHOOSE k \in 1..Len(results) : results[k].index = c
        IN  results[k].err]

\* a variant of firstError that takes the results as they arrived
RECURSIVE firstError_Arrival(_, _)
firstError_Arrival(errs, results) ==
    IF results = <<>> THEN NilErr
    ELSE IF results[1].err # NilErr THEN results[1].err
    ELSE firstError_Arrival(errs, Tail(results))

\* the first non-nil error in stage order
RECURSIVE firstError(_, _)
firstError(errs, results) ==
    IF errs = <<>> THEN NilErr
    ELSE IF errs[1] # NilErr THEN errs[1]
    ELSE firstError(Tail(errs), results)

\* wg.Wait() returns; the results are collected in stage order
PipelineWait ==
    /\ exec.kind = "Pipeline"
    /\ exec.main = "wait"
    /\ \A c \in 1..NumCommands : exec.task[c].pc = "done"
    /\ exec' = Returned(exec, firstError(byStage(exec.errs, NumCommands),
                                         exec.errs))
    /\ UNCHANGED <<routers, cmds, inserted, last>>

RunNext ==
    \/ CancelCtx
    \/ SerialStep
    \/ SerialReturn
    \/ ConcurrentSpawn
    \/ \E c \in 1..NumCommands : WorkerAcquire(c)
    \/ \E c \in 1..NumCommands : WorkerCancelled(c)
    \/ \E c \in 1..NumCommands : WorkerReturn(c)
    \/ ConcurrentWait
    \/ PipelineSpawn
    \/ PipelineDirect
    \/ \E c \in 1..NumCommands : StageStart(c)
    \/ \E c \in 1..NumCommands : StageRead(c)
    \/ \E c \in 1..NumCommands : StageWritten(c)
    \/ \E c \in 1..NumCommands : StageReturn(c)
    \/ PipelineWait

SpecRun == RunInit /\ [][RunNext]_vars

\* the goroutines of ConcurrentRunner.Execute under the Go scheduler: a
\* goroutine that can run is run, a select with a ready case proceeds, and
\* Run of every command returns.  The owner of ctx is free to cancel or not.
WorkerSelect(c) ==
    /\ c <= NumCommands
    /\ (WorkerAcquire(c) \/ WorkerCancelled(c))

WorkerRun(c) ==
    /\ c <= NumCommands
    /\ WorkerReturn(c)

\* one call of ConcurrentRunner.Execute, with commands that succeed or fail
ConcInit ==
    /\ routers = <<>>
    /\ inserted = <<>>
    /\ last = [op |-> "none"]
    /\ \E runner \in {ConcurrentRunner(0), ConcurrentRunner(1),
                      ConcurrentRunner(2)},
          n \in 0..MaxCommands :
          \E kinds \in [1..n -> KindsOf(runner)] :
             /\ cmds = [c \in 1..n |-> Leaf(<<c>>, <<>>, FALSE, kinds[c])]
             /\ exec = Call(runner, n, NoInput)

ConcNext ==
    \/ CancelCtx
    \/ ConcurrentSpawn
    \/ \E c \in 1..NumCommands : WorkerAcquire(c)
    \/ \E c \in 1..NumCommands : WorkerCancelled(c)
    \/ \E c \in 1..NumCommands : WorkerReturn(c)
    \/ ConcurrentWait

SpecConc == ConcInit /\ [][ConcNext]_vars

SpecConcFair ==
    /\ SpecConc
    /\ WF_vars(ConcurrentSpawn)
    /\ WF_vars(ConcurrentWait)
    /\ \A c \in 1..MaxCommands : WF_vars(WorkerSelect(c)) /\ WF_vars(WorkerRun(c))

(***************************************************************************)
(* Lifecycle specification: one dispatch of a Router with the default      *)
(* Runner, step by step, together with what runs beside it: the goroutine  *)
(* of the signal handler, the interrupts the process receives, the timer   *)
(* of the timeout, the timer of the grace period and the owner of the      *)
(* caller's context.  exec holds the state of the dispatch.                *)
(***************************************************************************)
\* context.DeadlineExceeded
DeadlineExceeded == [kind |-> "context.DeadlineExceeded"]

\* the name of the registered command, a name that is not registered, a
\* flag the command does not define
CmdName == <<3>>
OtherName == <<4>>
BadFlag == <<0, 2>>

\* the argument lists of the dispatch
ArgLists == {<<>>, <<CmdName>>, <<OtherName>>, <<CmdName, BadFlag>>}

\* the durations given to WithTimeout
Timeouts == {-1, 0, 1}

\* make(chan os.Signal, 2)
SigChCap == 2

\* the state at the call router.RunContext(ctx, args): ctx holds Err() of
\* the caller's context, of the context of the signal handler and of the
\* context handed to the Runner (layers that are not installed follow the
\* layer below)
Dispatch(args) ==
    [kind |-> "Dispatch", args |-> args, pc |-> "lookup", cmd |-> 0,
     result |-> NilErr, called |-> FALSE,
     ctx |-> [caller |-> NilErr, signal |-> NilErr, runner |-> NilErr],
     installed |-> FALSE, armed |-> FALSE,
     handler |-> [pc |-> "none", woken |-> "parked"],
     sigCh |-> [buf |-> 0, notify |-> FALSE, closed |-> FALSE],
     exit |-> [exited |-> FALSE, status |-> 0, phantom |-> FALSE],
     interrupts |-> 0, cleanups |-> 0]

LifeInit ==
    /\ \E handleSignal \in BOOLEAN, timeout \in Timeouts, flags \in BOOLEAN,
          behav \in {"ok", "fail", "block"}, args \in ArgLists :
          /\ cmds = <<Leaf(CmdName, <<>>, flags, behav)>>
          /\ routers = [r \in {0} |->
                           Register(New(0, <<>>, SerialRunner, handleSignal,
                                        timeout),
                                    1, CmdName, <<>>).router]
          /\ exec = Dispatch(args)
    /\ inserted = [r \in {0} |-> <<[name |-> CmdName, cmd |-> 1]>>]
    /\ last = [op |-> "none"]

\* the process runs and the dispatch has not panicked
Alive ==
    /\ exec.kind = "Dispatch"
    /\ ~exec.exit.exited
    /\ exec.pc # "panicked"

\* a variant of the cancellation in which a later cancellation replaces
\* the error of a context that is done
done_Overwrite(ctx, layers, err) ==
    [l \in DOMAIN ctx |-> IF l \in layers THEN err ELSE ctx[l]]

\* a context and the contexts derived from it are cancelled with err; a
\* context that is done keeps its error
done(ctx, layers, err) ==
    [l \in DOMAIN ctx |->
        IF l \in layers /\ ctx[l] = NilErr THEN err ELSE ctx[l]]

\* runContextWith returns err
Return(e, err) == [e EXCEPT !.pc = "returned", !.result = err]

\* runContextWith up to the search of the index
DispatchLookup ==
    /\ Alive
    /\ exec.pc = "lookup"
    /\ exec' =
         IF Len(exec.args) = 0 THEN Return(exec, NoCommandError)
         ELSE LET s == search(routers[0].root, exec.args[1]) IN
              IF ~s.found
                THEN Return(exec, CommandNotFoundError(exec.args[1],
                                     suggestNames(0, exec.args[1])))
              ELSE [exec EXCEPT !.pc = "parse", !.cmd = s.cmd]
    /\ UNCHANGED <<routers, cmds, inserted, last>>

\* the flags of the command are parsed
DispatchParse ==
    /\ Alive
    /\ exec.pc = "parse"
    /\ LET parsed == IF Flags(exec.cmd) THEN Parse(Tail(exec.args), FALSE)
                     ELSE [err |-> NilErr, args |-> Tail(exec.args),
                           a |-> FALSE]
       IN  exec' = IF parsed.err # NilErr
                     THEN Return(exec, FlagParseError(exec.args[1],
                                                      parsed.err))
                   ELSE [exec EXCEPT !.pc = "signal"]
    /\ UNCHANGED <<routers, cmds, inserted, last>>

\* setupSignalHandler: the context is wrapped, the channel subscribed and
\* the goroutine started
setupSignalHandler(e) ==
    [e EXCEPT !.installed = TRUE, !.sigCh.notify = TRUE,
              !.handler.pc = "wait1"]

\* if r.handleSignal { ctx, cancel = r.setupSignalHandler(ctx); defer .. }
SetupSignal ==
    /\ Alive
    /\ exec.pc = "signal"
    /\ exec' = [(IF routers[0].handleSignal THEN setupSignalHandler(exec)
                 ELSE exec) EXCEPT !.pc = "timeout"]
    /\ UNCHANGED <<routers, cmds, inserted, last>>

\* a variant of the timeout setup that also arms a zero timeout
SetupTimeout_NonNegative ==
    /\ Alive
    /\ exec.pc = "timeout"
    /\ exec' = [exec EXCEPT !.pc = "execute",
                            !.armed = routers[0].timeout >= 0]
    /\ UNCHANGED <<routers, cmds, inserted, last>>

\* if r.timeout > 0 { ctx, cancel = context.WithTimeout(ctx, r.timeout) }
SetupTimeout ==
    /\ Alive
    /\ exec.pc = "timeout"
    /\ exec' = [exec EXCEPT !.pc = "execute",
                            !.armed = routers[0].timeout > 0]
    /\ UNCHANGED <<routers, cmds, inserted, last>>

\* the tail of runContextWith: the error of the Runner is wrapped and the
\* deferred calls are next
Executed(e, err) ==
    [e EXCEPT !.pc = "deferTimeout",
              !.result = wrapCommandError(e.args[1], err)]

\* r.runner.Execute: SerialRunner looks at ctx and then calls Run
ExecuteStart ==
    /\ Alive
    /\ exec.pc = "execute"
    /\ exec' = IF exec.ctx.runner # NilErr
                 THEN Executed(exec, exec.ctx.runner)
               ELSE [exec EXCEPT !.pc = "running", !.called = TRUE]
    /\ UNCHANGED <<routers, cmds, inserted, last>>

\* Run of the command returns; a blocking command returns ctx.Err() once
\* its context is done
CommandReturn ==
    /\ Alive
    /\ exec.pc = "running"
    /\ LET k == cmds[exec.cmd].behav IN
       /\ k = "block" => exec.ctx.runner # NilErr
       /\ exec' = Executed(exec,
                     CASE k = "ok" -> NilErr
                       [] k = "fail" -> AppError(exec.cmd)
                       [] k = "block" -> exec.ctx.runner)
    /\ UNCHANGED <<routers, cmds, inserted, last>>

\* the deferred cancel of the timeout context: the timer is stopped
DeferredCancel ==
    /\ Alive
    /\ exec.pc = "deferTimeout"
    /\ exec' = IF routers[0].timeout > 0
                 THEN [exec EXCEPT !.pc = "deferSignal", !.armed = FALSE,
                          !.ctx = done(exec.ctx, {"runner"}, Canceled)]
               ELSE [exec EXCEPT !.pc = "deferSignal"]
    /\ UNCHANGED <<routers, cmds, inserted, last>>

\* the cleanup function: signal.Stop(sigCh); close(sigCh); cancel().
\* Closing a closed channel panics; closing the channel wakes a goroutine
\* that is parked in a receive from it
cleanup(e) ==
    IF e.sigCh.closed
      THEN [e EXCEPT !.pc = "panicked", !.cleanups = @ + 1,
                     !.sigCh.notify = FALSE]
    ELSE [e EXCEPT !.cleanups = @ + 1,
                   !.sigCh.notify = FALSE, !.sigCh.closed = TRUE,
                   !.handler.woken =
                       IF e.handler.pc = "wait2" /\ @ = "parked"
                         THEN "signal" ELSE @,
                   !.ctx = done(e.ctx, {"signal", "runner"}, Canceled)]

\* the deferred cleanup of the signal handler, then the return
DeferredCleanup ==
    /\ Alive
    /\ exec.pc = "deferSignal"
    /\ exec' = IF exec.installed
                 THEN LET e == cleanup(exec) IN
                      IF e.pc = "panicked" THEN e
                      ELSE [e EXCEPT !.pc = "returned"]
               ELSE [exec EXCEPT !.pc = "returned"]
    /\ UNCHANGED <<routers, cmds, inserted, last>>

\* the holder of the cleanup function calls it once more
CleanupAgain ==
    /\ Alive
    /\ exec.pc = "returned"
    /\ exec.installed
    /\ exec.cleanups < MaxCleanups
    /\ exec' = cleanup(exec)
    /\ UNCHANGED <<routers, cmds, inserted, last>>

\* the process receives SIGINT or SIGTERM while sigCh is subscribed: the
\* signal is queued unless the channel is full, and a handler parked in
\* its second select is woken by it
Interrupt ==
    /\ Alive
    /\ exec.sigCh.notify
    /\ exec.interrupts < MaxInterrupts
    /\ exec' = [exec EXCEPT
                  !.interrupts = @ + 1,
                  !.sigCh.buf = IF @ < SigChCap THEN @ + 1 ELSE @,
                  !.handler.woken =
                      IF exec.handler.pc = "wait2" /\ @ = "parked"
                        THEN "signal" ELSE @]
    /\ UNCHANGED <<routers, cmds, inserted, last>>

\* a variant of the first select that does not call cancel() on a signal
HandlerSignal_NoCancel ==
    /\ Alive
    /\ exec.handler.pc = "wait1"
    /\ exec.sigCh.buf > 0 \/ exec.sigCh.closed
    /\ LET buf == IF exec.sigCh.buf > 0 THEN exec.sigCh.buf - 1 ELSE 0 IN
       exec' = [exec EXCEPT
                  !.sigCh.buf = buf,
                  !.handler = [pc |-> "wait2",
                               woken |-> IF buf > 0 \/ exec.sigCh.closed
                                           THEN "signal" ELSE "parked"]]
    /\ UNCHANGED <<routers, cmds, inserted, last>>

\* the first select of the handler receives from sigCh (a signal, or the
\* zero value of a closed channel): cancel(), then the second select with
\* a new timer of the grace period
HandlerSignal ==
    /\ Alive
    /\ exec.handler.pc = "wait1"
    /\ exec.sigCh.buf > 0 \/ exec.sigCh.closed
    /\ LET buf == IF exec.sigCh.buf > 0 THEN exec.sigCh.buf - 1 ELSE 0 IN
       exec' = [exec EXCEPT
                  !.sigCh.buf = buf,
                  !.ctx = done(exec.ctx, {"signal", "runner"}, Canceled),
                  !.handler = [pc |-> "wait2",
                               woken |-> IF buf > 0 \/ exec.sigCh.closed
                                           THEN "signal" ELSE "parked"]]
    /\ UNCHANGED <<routers, cmds, inserted, last>>

\* the first select of the handler finds its context done
HandlerDone ==
    /\ Alive
    /\ exec.handler.pc = "wait1"
    /\ exec.ctx.signal # NilErr
    /\ exec' = [exec EXCEPT !.handler.pc = "done"]
    /\ UNCHANGED <<routers, cmds, inserted, last>>

\* the grace period elapses while the handler is parked in its second
\* select
GraceElapse ==
    /\ Alive
    /\ exec.handler.pc = "wait2"
    /\ exec.handler.woken = "parked"
    /\ exec' = [exec EXCEPT !.handler.woken = "timer"]
    /\ UNCHANGED <<routers, cmds, inserted, last>>

\* a variant of the second select that returns on a second signal
HandlerExit_Return ==
    /\ Alive
    /\ exec.handler.pc = "wait2"
    /\ exec.handler.woken = "signal"
    /\ exec' = [exec EXCEPT !.handler.pc = "done",
                  !.sigCh.buf = IF @ > 0 THEN @ - 1 ELSE 0]
    /\ UNCHANGED <<routers, cmds, inserted, last>>

\* the second select of the handler receives from sigCh: os.Exit(1)
HandlerExit ==
    /\ Alive
    /\ exec.handler.pc = "wait2"
    /\ exec.handler.woken = "signal"
    /\ exec' = [exec EXCEPT
                  !.exit = [exited |-> TRUE, status |-> 1,
                            phantom |-> exec.sigCh.buf = 0],
                  !.sigCh.buf = IF @ > 0 THEN @ - 1 ELSE 0]
    /\ UNCHANGED <<routers, cmds, inserted, last>>

\* the second select of the handler receives from the timer: return
HandlerGraceReturn ==
    /\ Alive
    /\ exec.handler.pc = "wait2"
    /\ exec.handler.woken = "timer"
    /\ exec' = [exec EXCEPT !.handler.pc = "done"]
    /\ UNCHANGED <<routers, cmds, inserted, last>>

\* the deadline of the timeout context passes while the context is live
DeadlineElapse ==
    /\ Alive
    /\ exec.armed
    /\ exec.ctx.runner = NilErr
    /\ exec' = [exec EXCEPT
                  !.ctx = done(exec.ctx, {"runner"}, DeadlineExceeded)]
    /\ UNCHANGED <<routers, cmds, inserted, last>>

\* the owner of the caller's context cancels it during the dispatch
CallerCancel ==
    /\ Alive
    /\ exec.pc \notin {"returned"}
    /\ exec.ctx.caller = NilErr
    /\ exec' = [exec EXCEPT
                  !.ctx = done(exec.ctx, {"caller", "signal", "runner"},
                               Canceled)]
    /\ UNCHANGED <<routers, cmds, inserted, last>>

LifeNext ==
    \/ DispatchLookup
    \/ DispatchParse
    \/ SetupSignal
    \/ SetupTimeout
    \/ ExecuteStart
    \/ CommandReturn
    \/ DeferredCancel
    \/ DeferredCleanup
    \/ CleanupAgain
    \/ Interrupt
    \/ HandlerSignal
    \/ HandlerDone
    \/ GraceElapse
    \/ HandlerExit
    \/ HandlerGraceReturn
    \/ DeadlineElapse
    \/ CallerCancel

SpecLife == LifeInit /\ [][LifeNext]_vars

\* the goroutine of the handler is scheduled when it can run
SpecLifeFair == SpecLife /\ WF_vars(HandlerExit)

(***************************************************************************)
(* Vocabulary of the properties.                                           *)
(***************************************************************************)
\* the entries of the insert log of router r under the name s
Entries(r, s) == {i \in 1..Len(inserted[r]) : inserted[r][i].name = s}

\* the names the index of router r held before the last registration call
NamesBefore(r) ==
    {inserted[r][i].name :
        i \in {j \in 1..Len(inserted[r]) : inserted[r][j].cmd # last.cmd}}

IsRegistration == last.op \in {"Register", "RegisterWithAliases"}

IsRun(e) == e.ev = "run"
IsExecute(e) == e.ev = "execute"

\* the run operations of leaf commands in a trace
Runs(trace) == SelectSeq(trace, IsRun)

\* the Runner calls in a trace
Executes(trace) == SelectSeq(trace, IsExecute)

Max(a, b) == IF a > b THEN a ELSE b

(***************************************************************************)
(* C1: after successful registrations, Lookup(s) succeeds if and only if   *)
(* s is one of the names inserted, and then it returns the command that    *)
(* was inserted under s; prefixes and extensions of registered names that  *)
(* are not registered themselves are not found.                            *)
(***************************************************************************)
C1_LookupRoundTrip ==
    last.op = "Lookup" =>
        /\ last.res.found <=> Entries(last.router, last.name) # {}
        /\ \A i \in Entries(last.router, last.name) :
              last.res.cmd = inserted[last.router][i].cmd
        /\ ~last.res.found => last.res.cmd = 0

\* a lookup of an unregistered name that is a strict prefix of one
\* registered name and a strict extension of another
C1_Witness ==
    /\ last.op = "Lookup"
    /\ ~last.res.found
    /\ \E i, j \in 1..Len(inserted[0]) :
          /\ HasPrefix(inserted[0][i].name, last.name)
          /\ HasPrefix(last.name, inserted[0][j].name)
          /\ inserted[0][i].name # last.name
          /\ inserted[0][j].name # last.name

(***************************************************************************)
(* C2: a registration of a command whose name is empty or already in the   *)
(* index (as a name or as an alias) panics, and the index still resolves   *)
(* the name to the command stored before.                                  *)
(***************************************************************************)
C2_DuplicatePanics ==
    IsRegistration =>
        /\ last.name = <<>> => last.panic
        /\ \A i \in Entries(last.router, last.name) :
              inserted[last.router][i].cmd # last.cmd =>
                 /\ last.panic
                 /\ Lookup(last.router, last.name) =
                       [cmd |-> inserted[last.router][i].cmd, found |-> TRUE]

\* a Register call for a name that is an alias of an earlier command
C2_Witness ==
    /\ last.op = "Register"
    /\ last.panic
    /\ \E i \in Entries(0, last.name) :
          /\ inserted[0][i].cmd # last.cmd
          /\ Name(inserted[0][i].cmd) # last.name

(***************************************************************************)
(* C3: an alias resolves to the same command instance as the primary name, *)
(* and a dispatch by the alias runs that command with the same arguments,  *)
(* flags and streams as a dispatch by the primary name.                    *)
(***************************************************************************)
C3_AliasSameAsName ==
    \A i \in 1..Len(inserted[0]) :
        LET alias == inserted[0][i].name
            c == inserted[0][i].cmd
        IN  (~(IsRegistration /\ last.panic) /\ alias # Name(c)) =>
               /\ Lookup(0, alias) = [cmd |-> c, found |-> TRUE]
               /\ Lookup(0, Name(c)) = [cmd |-> c, found |-> TRUE]
               /\ (last.op = "RunContext" /\ last.args[1] = alias) =>
                     Runs(last.res.trace) =
                        Runs(RunContext(0, last.ctx,
                                <<Name(c)>> \o Tail(last.args)).trace)

\* a dispatch by an alias, with arguments, that ran the command
C3_Witness ==
    /\ last.op = "RunContext"
    /\ Len(last.args) > 1
    /\ Len(Runs(last.res.trace)) = 1
    /\ Name(Runs(last.res.trace)[1].cmd) # last.args[1]

(***************************************************************************)
(* C4: RegisterWithAliases panics if a supplied alias is empty, equals the *)
(* command name, or is already registered (before the call or earlier in   *)
(* the same call); when it returns, every supplied alias resolves to the   *)
(* command.                                                                *)
(***************************************************************************)
C4_SuppliedAliases ==
    last.op = "RegisterWithAliases" =>
        /\ \A i \in 1..Len(last.aliases) :
              \/ last.aliases[i] = <<>>
              \/ last.aliases[i] = last.name
              \/ last.aliases[i] \in NamesBefore(last.router)
              \/ \E j \in 1..(i - 1) : last.aliases[j] = last.aliases[i]
              => last.panic
        /\ ~last.panic =>
              \A i \in 1..Len(last.aliases) :
                 Lookup(last.router, last.aliases[i]) =
                    [cmd |-> last.cmd, found |-> TRUE]

\* a call that supplies the same alias twice: the first is inserted, the
\* second panics
C4_Witness ==
    /\ last.op = "RegisterWithAliases"
    /\ last.panic
    /\ Len(last.aliases) = 2
    /\ last.aliases[1] = last.aliases[2]
    /\ Lookup(0, last.aliases[1]) = [cmd |-> last.cmd, found |-> TRUE]

(***************************************************************************)
(* C5: a dispatch whose first token is not registered returns a            *)
(* CommandNotFoundError naming the token, with at most 3 suggestions, each *)
(* a registered name within distance max(2, len(token)/3), in ascending    *)
(* order of distance and then of name; no command is run.                  *)
(***************************************************************************)
C5_NotFound ==
    (last.op = "RunContext" /\ Len(last.args) > 0
        /\ Entries(0, last.args[1]) = {}) =>
        LET err == last.res.err
            token == last.args[1]
            dist(i) == levenshtein(token, err.Suggestions[i])
        IN  /\ err.kind = "CommandNotFoundError"
            /\ err.Name = token
            /\ Len(err.Suggestions) <= 3
            /\ \A i \in 1..Len(err.Suggestions) :
                  /\ Entries(0, err.Suggestions[i]) # {}
                  /\ dist(i) <= Max(2, Len(token) \div 3)
            /\ \A i, j \in 1..Len(err.Suggestions) :
                  i < j =>
                     \/ dist(i) < dist(j)
                     \/ /\ dist(i) = dist(j)
                        /\ ~StrLess(err.Suggestions[j], err.Suggestions[i])
            /\ Runs(last.res.trace) = <<>>

\* a not-found dispatch with four registered names within the threshold:
\* the three suggestions are at two different distances and one candidate
\* is cut off
C5_Witness ==
    /\ last.op = "RunContext"
    /\ last.res.err.kind = "CommandNotFoundError"
    /\ Len(last.res.err.Suggestions) = 3
    /\ levenshtein(last.args[1], last.res.err.Suggestions[1])
          < levenshtein(last.args[1], last.res.err.Suggestions[3])
    /\ \E i \in 1..Len(inserted[0]) :
          /\ levenshtein(last.args[1], inserted[0][i].name)
                <= Max(2, Len(last.args[1]) \div 3)
          /\ \A j \in 1..3 : last.res.err.Suggestions[j] # inserted[0][i].name

(***************************************************************************)
(* Vocabulary of the properties of a nested dispatch.                      *)
(***************************************************************************)
IsSearch(e) == e.ev = "search"

\* the index lookups in a trace, one per router level reached
Searches(trace) == SelectSeq(trace, IsSearch)

\* router r appears in the trace with an event of kind ev
Did(trace, ev, r) ==
    \E i \in 1..Len(trace) : trace[i].ev = ev /\ trace[i].router = r

\* the CommandError values in the chain of err
CommandErrors(err) ==
    {i \in 1..Len(Chain(err)) : Chain(err)[i].kind = "CommandError"}

IsDispatch == last.op = "RunContext"

(***************************************************************************)
(* C6: a dispatch with zero tokens returns NoCommandError without a lookup *)
(* and without running a command; so does a sub-router called with no      *)
(* context or an empty argument list, and the NoCommandError is then found *)
(* in the chain of the error the top-level caller receives.                *)
(***************************************************************************)
C6_NoCommand ==
    /\ (IsDispatch /\ last.args = <<>>) =>
          last.res = Res(NoCommandError, <<>>)
    /\ (last.op = "Run" /\ (last.tc.nil \/ last.tc.Args = <<>>)) =>
          /\ last.res.err = NoCommandError
          /\ Searches(last.res.trace) = <<>>
          /\ Runs(last.res.trace) = <<>>
    /\ IsDispatch =>
          \A i \in 1..Len(last.res.trace) :
             LET e == last.res.trace[i] IN
             (e.ev = "routerRun" /\ (e.nil \/ e.args = <<>>)) =>
                /\ ErrorsAs(last.res.err, "NoCommandError")
                /\ ~Did(last.res.trace, "search", e.router)
                /\ Runs(last.res.trace) = <<>>

\* a dispatch that ends at the sub-router of a sub-router with no token left
C6_Witness ==
    /\ IsDispatch
    /\ Len(last.args) = 2
    /\ Len(Executes(last.res.trace)) = 2
    /\ last.res.err.kind = "CommandError"
    /\ \E i \in 1..Len(last.res.trace) :
          /\ last.res.trace[i].ev = "routerRun"
          /\ last.res.trace[i].router = 2
          /\ last.res.trace[i].args = <<>>

(***************************************************************************)
(* C7: when the resolved command declares flags and the tokens after its   *)
(* name do not parse, the dispatch returns a FlagParseError with the       *)
(* command name and the parser's error as its cause; the router that       *)
(* resolved the command calls no Runner, installs no signal handler and no *)
(* timeout, and no command runs.                                           *)
(***************************************************************************)
C7_FlagParseFailure ==
    (IsDispatch /\ Searches(last.res.trace) # <<>>) =>
        LET n == Len(Searches(last.res.trace))
            r == Searches(last.res.trace)[n].router
            found == Lookup(r, last.args[n])
            parsed == Parse(Drop(last.args, n), FALSE)
        IN  (found.found /\ Flags(found.cmd) /\ parsed.err # NilErr) =>
               /\ ErrorsIs(last.res.err,
                           [kind |-> "FlagParseError",
                            Command |-> last.args[n], Err |-> parsed.err])
               /\ ErrorsIs(last.res.err, parsed.err)
               /\ n = 1 => last.res.err.kind = "FlagParseError"
               /\ ~Did(last.res.trace, "execute", r)
               /\ ~Did(last.res.trace, "signal", r)
               /\ ~Did(last.res.trace, "timeout", r)
               /\ Runs(last.res.trace) = <<>>

\* a flag-parse failure at a sub-router configured with a signal handler
C7_Witness ==
    /\ IsDispatch
    /\ Len(Searches(last.res.trace)) = 2
    /\ Searches(last.res.trace)[2].router = 2
    /\ routers[2].handleSignal
    /\ ErrorsAs(last.res.err, "FlagParseError")

(***************************************************************************)
(* C8: an error of a dispatch that reached a Runner has exactly one        *)
(* CommandError in its chain, at every depth and under every Runner; it is *)
(* tagged with the name dispatched by the innermost router that called its *)
(* Runner, and the error a command's Run returned is still in the chain.   *)
(***************************************************************************)
C8_WrappedOnce ==
    (IsDispatch /\ Executes(last.res.trace) # <<>>) =>
        LET err == last.res.err
            n == Len(Executes(last.res.trace))
        IN  /\ \A i \in 1..Len(Runs(last.res.trace)) :
                  LET c == Runs(last.res.trace)[i].cmd IN
                  cmds[c].behav = "fail" =>
                     /\ err # NilErr
                     /\ ErrorsIs(err, AppError(c))
            /\ err # NilErr =>
                  /\ Cardinality(CommandErrors(err)) = 1
                  /\ \A i \in CommandErrors(err) :
                        Chain(err)[i].Command = last.args[n]

\* a failing leaf command two routers below the root
C8_Witness ==
    /\ IsDispatch
    /\ Len(Executes(last.res.trace)) = 3
    /\ Len(Runs(last.res.trace)) = 1
    /\ ErrorsIs(last.res.err, AppError(Runs(last.res.trace)[1].cmd))

(***************************************************************************)
(* C9: a nested dispatch consumes one token per router level; the leaf     *)
(* command named by the last consumed token runs, with the remaining       *)
(* tokens as its arguments (the leftover of flag parsing when it declares  *)
(* flags) and with the streams handed to the outermost router.             *)
(***************************************************************************)
C9_OneTokenPerLevel ==
    (last.op \in {"RunContext", "Run"} /\ Runs(last.res.trace) # <<>>) =>
        LET ex == Executes(last.res.trace)
            n == Len(ex)
            run == Runs(last.res.trace)[1]
            args == IF IsDispatch THEN last.args ELSE last.tc.Args
            rest == Drop(args, n)
        IN  /\ Len(Runs(last.res.trace)) = 1
            /\ ex[1].router = last.router
            /\ \A i \in 1..n :
                  /\ Lookup(ex[i].router, args[i]) =
                        [cmd |-> ex[i].cmd, found |-> TRUE]
                  /\ i < n => cmds[ex[i].cmd].routerOf = ex[i + 1].router
            /\ run.cmd = ex[n].cmd
            /\ cmds[run.cmd].routerOf < 0
            /\ run.args = IF Flags(run.cmd) THEN Parse(rest, FALSE).args
                          ELSE rest
            /\ run.stdout = IF IsDispatch THEN routers[0].stdout
                            ELSE last.tc.Stdout
            /\ run.stderr = IF IsDispatch THEN routers[0].stderr
                            ELSE last.tc.Stderr

\* a leaf with flags two routers below the root, run with a flag and a
\* positional
C9_Witness ==
    /\ IsDispatch
    /\ Len(last.args) = 5
    /\ Len(Executes(last.res.trace)) = 3
    /\ Len(Runs(last.res.trace)) = 1
    /\ Runs(last.res.trace)[1].flags.a
    /\ Runs(last.res.trace)[1].args = <<<<3>>>>

(***************************************************************************)
(* C10: if the context is already cancelled when a dispatch calls its      *)
(* Runner, the dispatch returns a CommandError tagged with the command     *)
(* name whose chain holds context.Canceled, under every Runner.            *)
(***************************************************************************)
C10_CancelledBeforeExecute ==
    (IsDispatch /\ last.ctx.canceled /\ Executes(last.res.trace) # <<>>) =>
        /\ last.res.err.kind = "CommandError"
        /\ \E i \in 1..Len(last.args) : last.res.err.Command = last.args[i]
        /\ ErrorsIs(last.res.err, Canceled)

(***************************************************************************)
(* C20: after successful registrations Commands() holds every registered   *)
(* command exactly once, however many aliases it has: its length is the    *)
(* number of distinct commands registered and no command appears twice.    *)
(***************************************************************************)
C20_CommandsOnce ==
    last.op = "Commands" =>
        /\ Len(last.res) = Len(cmds)
        /\ \A c \in 1..Len(cmds) :
              Cardinality({i \in 1..Len(last.res) : last.res[i] = c}) = 1

\* a listing of two commands that have three aliases between them
C20_Witness ==
    /\ last.op = "Commands"
    /\ Len(last.res) = 2
    /\ Len(inserted[0]) >= 4
    /\ \A c \in 1..2 :
          \E i \in 1..Len(inserted[0]) :
             inserted[0][i].cmd = c /\ inserted[0][i].name # Name(c)

(***************************************************************************)
(* Vocabulary of the properties of a Runner call.                          *)
(***************************************************************************)
HasReturned == exec.main = "returned"

\* the commands whose Run returned an error
Failed == {c \in 1..NumCommands : exec.task[c].err # NilErr}

\* the commands whose Run is in progress
InProgress ==
    {c \in 1..NumCommands :
        exec.task[c].pc \in {"running", "read", "writing", "ret"}}

\* every command ran exactly once and has returned
AllRanOnce ==
    \A c \in 1..NumCommands :
        exec.task[c].calls = 1 /\ exec.task[c].pc = "done"

C12_MaxWorkers ==
    (exec.kind = "Concurrent" /\ exec.MaxWorkers >= 1) =>
        Cardinality(InProgress) <= exec.MaxWorkers

\* two commands run on the two slots while a third waits for a slot
C12_Witness ==
    /\ exec.kind = "Concurrent"
    /\ exec.MaxWorkers = 2
    /\ Cardinality(InProgress) = 2
    /\ \E c \in 1..NumCommands : exec.task[c].pc = "select"

(***************************************************************************)
(* C13: with a context that is never cancelled ConcurrentRunner.Execute    *)
(* runs every command exactly once, and its result holds the error of      *)
(* every failing command and nothing else; it is nil exactly when no       *)
(* command failed.                                                         *)
(***************************************************************************)
C13_AggregatesAll ==
    (exec.kind = "Concurrent" /\ HasReturned /\ ~exec.canceled) =>
        /\ AllRanOnce
        /\ \A c \in Failed : ErrorsIs(exec.result, AppError(c))
        /\ exec.result = NilErr <=> Failed = {}
        /\ exec.result # NilErr =>
              Len(exec.result.errs) = Cardinality(Failed)

\* [failing, ok, failing]: both errors are in the result
C13_Witness ==
    /\ exec.kind = "Concurrent"
    /\ HasReturned
    /\ ~exec.canceled
    /\ Failed = {1, 3}
    /\ cmds[2].behav = "ok"
    /\ ErrorsIs(exec.result, AppError(1))
    /\ ErrorsIs(exec.result, AppError(3))

(***************************************************************************)
(* C14: when PipelineRunner.Execute returns, its result is the error of    *)
(* the failing stage with the smallest index, whatever the order in which  *)
(* the stages completed; it is nil exactly when every stage succeeded.     *)
(***************************************************************************)
C14_FirstByStage ==
    (exec.kind = "Pipeline" /\ HasReturned) =>
        /\ exec.result = NilErr <=> Failed = {}
        /\ \A c \in Failed :
              (\A j \in Failed : c <= j) => exec.result = exec.task[c].err

\* two stages fail with different errors and the later stage is the first
\* to complete
C14_Witness ==
    /\ exec.kind = "Pipeline"
    /\ HasReturned
    /\ Failed = {1, 2}
    /\ exec.task[1].err # exec.task[2].err
    /\ exec.errs[1].index = 2
    /\ exec.result = AppError(1)

(***************************************************************************)
(* C15: when a pipeline of two or more stages returns with every stage     *)
(* successful, each stage read exactly the bytes the stage before it       *)
(* wrote, followed by a clean end of stream, the first stage read the      *)
(* external input and the last wrote to the external output; the pipeline  *)
(* [write, upper, read] delivers the prefix followed by the upper-cased    *)
(* output of the writer.                                                   *)
(***************************************************************************)
C15_PipelineData ==
    (exec.kind = "Pipeline" /\ HasReturned /\ NumCommands >= 2
        /\ Failed = {}) =>
        LET n == NumCommands
            \* what stage c read, when it reads
            got(c) == IF c = 1 THEN exec.stdin.data ELSE exec.pipes[c - 1].read
            \* what stage c is to write, by the kind of its command
            want(c) ==
                CASE cmds[c].behav = "write" -> Output
                  [] cmds[c].behav = "read" -> Prefix \o got(c)
                  [] cmds[c].behav = "upper" -> ToUpper(got(c))
                  [] OTHER -> <<>>
        IN  /\ exec.result = NilErr
            /\ \A k \in 1..(n - 1) :
                  /\ exec.pipes[k].written = want(k)
                  /\ exec.pipes[k].read = exec.pipes[k].written
                  /\ ~exec.pipes[k].pending.some
                  /\ exec.pipes[k].closed.state = "eof"
                  /\ Reads(k + 1) => exec.task[k + 1].buf = exec.pipes[k].read
            /\ exec.sink = want(n)
            /\ (n = 3 /\ cmds[1].behav = "write" /\ cmds[2].behav = "upper"
                  /\ cmds[3].behav = "read") => exec.sink = <<9, 5, 6>>

\* [write("hello"), uppercase, read-with-prefix] has returned
C15_Witness ==
    /\ exec.kind = "Pipeline"
    /\ HasReturned
    /\ NumCommands = 3
    /\ cmds[1].behav = "write"
    /\ cmds[2].behav = "upper"
    /\ cmds[3].behav = "read"
    /\ exec.sink = Prefix \o ToUpper(Output)
    /\ exec.result = NilErr

(***************************************************************************)
(* C16: when PipelineRunner.Execute or ConcurrentRunner.Execute has        *)
(* returned, no goroutine it started is still running and no Run starts    *)
(* any more, whether or not a command failed or the context was cancelled. *)
(***************************************************************************)
C16_AllJoined ==
    (exec.kind \in {"Pipeline", "Concurrent"} /\ HasReturned) =>
        /\ \A c \in 1..NumCommands : exec.task[c].pc \in {"idle", "done"}
        /\ \A c \in 1..NumCommands :
              /\ ~ENABLED WorkerAcquire(c)
              /\ ~ENABLED StageStart(c)

\* a pipeline with a failed stage has returned after the context was
\* cancelled
C16_Witness ==
    /\ exec.kind = "Pipeline"
    /\ HasReturned
    /\ NumCommands >= 2
    /\ exec.canceled
    /\ Failed # {}
    /\ \A c \in 1..NumCommands : exec.task[c].calls = 1

(***************************************************************************)
(* Vocabulary of the properties of the lifecycle of a dispatch.            *)
(***************************************************************************)
\* the handler took a first interrupt, its grace period has not elapsed,
\* and a further interrupt is queued on the channel
SecondPending ==
    /\ Alive
    /\ exec.handler.pc = "wait2"
    /\ exec.handler.woken # "timer"
    /\ exec.sigCh.buf > 0

\* the Runner call of the dispatch has returned
AfterExecute == exec.pc \in {"deferTimeout", "deferSignal", "returned"}

(***************************************************************************)
(* C17: with signal handling enabled, a second interrupt that arrives      *)
(* after the handler took the first one and before the grace period has    *)
(* elapsed terminates the process with exit status 1: the handler can      *)
(* only exit, it cannot return through the grace timer, and it does exit   *)
(* once it is scheduled (unless the process has crashed before).           *)
(***************************************************************************)
C17_SecondInterruptExits ==
    /\ [](SecondPending =>
            /\ exec.handler.woken = "signal"
            /\ ENABLED HandlerExit
            /\ ~ENABLED HandlerGraceReturn
            /\ ~ENABLED GraceElapse)
    /\ (SecondPending ~>
            \/ exec.exit.exited /\ exec.exit.status = 1
            \/ exec.pc = "panicked")

\* two interrupts were delivered while the command was running and the
\* process exited with status 1 on the second
C17_Witness ==
    /\ exec.kind = "Dispatch"
    /\ exec.interrupts = 2
    /\ exec.pc = "running"
    /\ exec.exit.exited
    /\ exec.exit.status = 1
    /\ ~exec.exit.phantom

(***************************************************************************)
(* C18: the cleanup of the signal handler has run when a dispatch that     *)
(* installed the handler returns (the watch is stopped and the wrapped     *)
(* context cancelled), and calling the cleanup a second time is harmless.  *)
(***************************************************************************)
C18_CleanupIdempotent ==
    exec.kind = "Dispatch" =>
        /\ (exec.pc = "returned" /\ exec.installed) =>
              /\ exec.cleanups >= 1
              /\ ~exec.sigCh.notify
              /\ exec.ctx.signal # NilErr
        /\ exec.cleanups >= 2 => exec.pc # "panicked"

(***************************************************************************)
(* C19: the deadline of a positive timeout is armed only around the        *)
(* Runner call, never during lookup or flag parsing; when it passes while  *)
(* a blocking, cooperative command runs, the dispatch returns a            *)
(* CommandError whose cause is context.DeadlineExceeded; a command that    *)
(* returns on its own is unaffected; a zero or negative timeout arms no    *)
(* deadline.                                                               *)
(***************************************************************************)
C19_TimeoutAroundRunner ==
    exec.kind = "Dispatch" =>
        LET k == cmds[1].behav IN
        /\ exec.armed =>
              /\ routers[0].timeout > 0
              /\ exec.pc \in {"execute", "running", "deferTimeout"}
        /\ exec.pc \in {"lookup", "parse", "signal", "timeout"} =>
              /\ ~ENABLED DeadlineElapse
              /\ exec.ctx.runner # DeadlineExceeded
        /\ routers[0].timeout <= 0 =>
              /\ ~ENABLED DeadlineElapse
              /\ exec.ctx.runner # DeadlineExceeded
        /\ (routers[0].timeout > 0 /\ exec.pc \in {"execute", "running"}
              /\ exec.ctx.runner = NilErr) => ENABLED DeadlineElapse
        /\ (AfterExecute /\ exec.called /\ k = "block"
              /\ exec.ctx.runner = DeadlineExceeded) =>
              /\ exec.result = [kind |-> "CommandError", Command |-> CmdName,
                                Err |-> DeadlineExceeded]
              /\ ErrorsIs(exec.result, DeadlineExceeded)
        /\ (AfterExecute /\ exec.called /\ k = "ok") => exec.result = NilErr
        /\ (AfterExecute /\ exec.called /\ k = "fail") =>
              exec.result = [kind |-> "CommandError", Command |-> CmdName,
                             Err |-> AppError(1)]

\* a blocking command under a positive timeout, no handler and no
\* cancellation by the caller: the dispatch has returned the deadline error
C19_Witness ==
    /\ exec.kind = "Dispatch"
    /\ exec.pc = "returned"
    /\ exec.called
    /\ cmds[1].behav = "block"
    /\ ~exec.installed
    /\ exec.ctx.caller = NilErr
    /\ routers[0].timeout > 0
    /\ ErrorsIs(exec.result, DeadlineExceeded)

(***************************************************************************)
(* Vocabulary of the error kinds.                                          *)
(***************************************************************************)
\* the four error types of a dispatch
ErrorKinds ==
    {"NoCommandError", "CommandNotFoundError", "FlagParseError",
     "CommandError"}

\* the kinds errors.As finds in the chain of err
Matched(err) == {k \in ErrorKinds : ErrorsAs(err, k)}

IsRouterRun(e) == e.ev = "routerRun"

\* the calls of Router.Run a top-level or direct call made below itself
SubRouterRuns ==
    Len(SelectSeq(last.res.trace, IsRouterRun))
        - (IF last.op = "Run" THEN 1 ELSE 0)

C22_ShortListsAlike ==
    HasReturned =>
        /\ NumCommands = 0 => exec.result = NilErr
        /\ NumCommands = 1 =>
              /\ exec.task[1].calls = 1
              /\ exec.result = exec.task[1].err

(***************************************************************************)
(* C22 amended: under every Runner an empty list returns nil and runs      *)
(* nothing.  A one-element list has its command run at most once, and      *)
(* exactly once while the context is live; Serial and Pipeline then return *)
(* the command's error itself, Concurrent returns it inside an errors.Join *)
(* aggregate.  With a cancelled context Serial and Concurrent may return   *)
(* the cancellation (Concurrent inside an aggregate) without running the   *)
(* command, while Pipeline runs it regardless.                             *)
(***************************************************************************)
C22_ShortLists ==
    HasReturned =>
        /\ NumCommands = 0 => exec.result = NilErr /\ exec.sink = <<>>
        /\ NumCommands = 1 =>
              LET ran == exec.task[1].calls = 1
                  err == exec.task[1].err
              IN  /\ exec.task[1].calls <= 1
                  /\ ~exec.canceled => ran
                  /\ exec.kind = "Pipeline" => ran
                  /\ (ran /\ exec.kind \in {"Serial", "Pipeline"}) =>
                        exec.result = err
                  /\ (ran /\ exec.kind = "Concurrent") =>
                        /\ exec.result = Join(<<err>>)
                        /\ exec.result = NilErr <=> err = NilErr
                        /\ ErrorsIs(exec.result, err) \/ err = NilErr
                  /\ (~ran /\ exec.kind = "Serial") =>
                        exec.result = Canceled
                  /\ (~ran /\ exec.kind = "Concurrent") =>
                        exec.result = Join(<<Canceled>>)

\* a single failing command under the Concurrent policy: the result is an
\* aggregate that holds the command's error
C22_Witness ==
    /\ HasReturned
    /\ NumCommands = 1
    /\ exec.kind = "Concurrent"
    /\ exec.task[1].calls = 1
    /\ exec.task[1].err = AppError(1)
    /\ exec.result # AppError(1)
    /\ ErrorsIs(exec.result, AppError(1))

(***************************************************************************)
(* C23: once the context is cancelled ConcurrentRunner.Execute starts no   *)
(* command: no Run is entered in a step taken from a state in which the    *)
(* context is cancelled, whether the worker has just been started or is    *)
(* waiting for a slot.                                                     *)
(***************************************************************************)
C23_NoStartAfterCancel ==
    [][(exec.kind = "Concurrent" /\ exec.canceled) =>
          \A c \in 1..NumCommands :
             exec'.task[c].calls = exec.task[c].calls]_vars

\* a step of PipelineRunner.Execute or of one of its goroutines
PipelineProgress ==
    \/ PipelineSpawn
    \/ PipelineDirect
    \/ \E c \in 1..NumCommands : StageStart(c)
    \/ \E c \in 1..NumCommands : StageRead(c)
    \/ \E c \in 1..NumCommands : StageWritten(c)
    \/ \E c \in 1..NumCommands : StageReturn(c)
    \/ PipelineWait

(***************************************************************************)
(* C24: a stage whose Write is in progress when the stage after it has     *)
(* finished does not block: its Write returns (with an error); and a call  *)
(* of PipelineRunner.Execute that has not returned can always take a step, *)
(* so that it returns in the end, also when a stage stops without reading  *)
(* its input.                                                              *)
(***************************************************************************)
C24_WriterNeverStuck ==
    exec.kind = "Pipeline" =>
        /\ \A c \in 1..(NumCommands - 1) :
              (exec.task[c].pc = "writing" /\ exec.task[c + 1].pc = "done")
                 => ENABLED StageWritten(c)
        /\ ~HasReturned => ENABLED PipelineProgress

\* the Run of stage c has returned an error
StageFailed(c) ==
    /\ exec.task[c].pc \in {"ret", "done"}
    /\ exec.task[c].err # NilErr

(***************************************************************************)
(* C25: once a stage of a pipeline has failed, the Run of no stage         *)
(* downstream of it is entered.                                            *)
(***************************************************************************)
C25_DownstreamNotStarted ==
    [][exec.kind = "Pipeline" =>
          \A c \in 1..NumCommands : \A j \in (c + 1)..NumCommands :
             StageFailed(c) => exec'.task[j].calls = exec.task[j].calls]_vars

\* the handler has returned because the grace period elapsed
GraceOver ==
    /\ exec.handler.pc = "done"
    /\ exec.handler.woken = "timer"

(***************************************************************************)
(* C26: once the grace period that follows the cancellation has elapsed,   *)
(* the context of the command is done with the error DeadlineExceeded.     *)
(***************************************************************************)
C26_GraceThenDeadline ==
    (exec.kind = "Dispatch" /\ GraceOver) =>
        exec.ctx.runner = DeadlineExceeded

(***************************************************************************)
(* Sharing specification: the Context values ConcurrentRunner.Execute      *)
(* hands to its workers, with the memory they refer to.  A []string is a   *)
(* slice header (backing array, length) and Flags is a pointer to a        *)
(* flag.FlagSet; both refer to the heap.  Address 0 holds what the caller  *)
(* put into execCtx, address c what command c allocated itself.  The       *)
(* commands change their own context in the ways Go allows.                *)
(***************************************************************************)
\* the strings an argument or a flag can be set to
Values == {1, 2}

\* the nil pointer
Nil == -1

\* a worker that has not built its context yet
NoCmdCtx ==
    [built |-> FALSE, Args |-> [array |-> 0, len |-> 0], Flags |-> Nil]

\* the state at the call of ConcurrentRunner.Execute with n commands and
\* execCtx = &Context{Args: []string{"1"}, Flags: fs or nil}
Share(n, flags) ==
    [kind |-> "Share",
     arrays |-> [a \in 0..n |-> IF a = 0 THEN <<1>> ELSE <<>>],
     flagsets |-> [f \in 0..n |-> 1],
     execCtx |-> [Args |-> [array |-> 0, len |-> 1],
                  Flags |-> IF flags THEN 0 ELSE Nil],
     cmdCtx |-> [c \in 1..n |-> NoCmdCtx],
     writes |-> 0, by |-> 0]

ShareInit ==
    /\ routers = <<>>
    /\ inserted = <<>>
    /\ last = [op |-> "none"]
    /\ \E n \in 2..MaxCommands, flags \in BOOLEAN :
          /\ cmds = [c \in 1..n |-> Leaf(<<c>>, <<>>, flags, "ok")]
          /\ exec = Share(n, flags)

\* cmdCtx := &Context{Args: execCtx.Args, Flags: execCtx.Flags, ...}: the
\* slice header and the pointer are copied
CopyContext(c) ==
    /\ exec.kind = "Share"
    /\ ~exec.cmdCtx[c].built
    /\ exec' = [exec EXCEPT !.by = c,
                  !.cmdCtx[c] = [built |-> TRUE, Args |-> exec.execCtx.Args,
                                 Flags |-> exec.execCtx.Flags]]
    /\ UNCHANGED <<routers, cmds, inserted, last>>

\* command c may change its context
MayWrite(c) ==
    /\ exec.kind = "Share"
    /\ exec.cmdCtx[c].built
    /\ exec.writes < MaxWrites

\* tc.Args[0] = v in command c
SetArg(c, v) ==
    /\ MayWrite(c)
    /\ exec.cmdCtx[c].Args.len > 0
    /\ exec' = [exec EXCEPT !.by = c, !.writes = @ + 1,
                  !.arrays[exec.cmdCtx[c].Args.array][1] = v]
    /\ UNCHANGED <<routers, cmds, inserted, last>>

\* tc.Args = []string{v} in command c
AssignArgs(c, v) ==
    /\ MayWrite(c)
    /\ exec' = [exec EXCEPT !.by = c, !.writes = @ + 1,
                  !.arrays[c] = <<v>>,
                  !.cmdCtx[c].Args = [array |-> c, len |-> 1]]
    /\ UNCHANGED <<routers, cmds, inserted, last>>

\* tc.Flags.Set("a", v) in command c
SetFlag(c, v) ==
    /\ MayWrite(c)
    /\ exec.cmdCtx[c].Flags # Nil
    /\ exec' = [exec EXCEPT !.by = c, !.writes = @ + 1,
                  !.flagsets[exec.cmdCtx[c].Flags] = v]
    /\ UNCHANGED <<routers, cmds, inserted, last>>

\* tc.Flags = a new flag set with a = v, in command c
AssignFlags(c, v) ==
    /\ MayWrite(c)
    /\ exec' = [exec EXCEPT !.by = c, !.writes = @ + 1,
                  !.flagsets[c] = v,
                  !.cmdCtx[c].Flags = c]
    /\ UNCHANGED <<routers, cmds, inserted, last>>

ShareNext ==
    \/ \E c \in 1..NumCommands : CopyContext(c)
    \/ \E c \in 1..NumCommands, v \in Values : SetArg(c, v)
    \/ \E c \in 1..NumCommands, v \in Values : AssignArgs(c, v)
    \/ \E c \in 1..NumCommands, v \in Values : SetFlag(c, v)
    \/ \E c \in 1..NumCommands, v \in Values : AssignFlags(c, v)

SpecShare == ShareInit /\ [][ShareNext]_vars

\* what command c finds in its context in state e: its arguments and the
\* value of its flag (0 without a flag set)
ViewOf(e, c) ==
    [Args |-> Take(e.arrays[e.cmdCtx[c].Args.array], e.cmdCtx[c].Args.len),
     Flag |-> IF e.cmdCtx[c].Flags = Nil THEN 0
              ELSE e.flagsets[e.cmdCtx[c].Flags]]

(***************************************************************************)
(* C27: under the Concurrent policy a change a command makes to the        *)
(* arguments or the flags of its context is never visible to another       *)
(* command: a step of command c leaves what every other command finds in   *)
(* its own context unchanged.                                              *)
(***************************************************************************)
C27_ContextsIndependent ==
    [][exec.kind = "Share" =>
          \A d \in 1..NumCommands :
             (exec.cmdCtx[d].built /\ d # exec'.by) =>
                 ViewOf(exec', d) = ViewOf(exec, d)]_vars

C29_CheckedBeforeEach ==
    [][exec.kind = "Serial" =>
          /\ (exec.main = "loop" /\ exec.i <= NumCommands /\ exec.canceled) =>
                /\ exec'.main = "returned"
                /\ exec'.result = Canceled
                /\ \A c \in 1..NumCommands :
                      /\ exec'.task[c] = exec.task[c]
                      /\ c >= exec.i => /\ exec.task[c].calls = 0
                                        /\ exec.task[c].pc = "idle"
          /\ exec.main = "run" =>
                /\ ENABLED SerialReturn
                /\ exec'.task[exec.i].pc \in {"running", "done"}
                /\ exec'.main = "returned" =>
                      /\ exec'.task[exec.i].pc = "done"
                      /\ exec'.task[exec.i].err # NilErr
                      /\ exec'.result = exec'.task[exec.i].err
                /\ exec'.task[exec.i].pc = "done" =>
                      exec'.task[exec.i].calls = 1]_vars

\* a call cancelled after its first command has returned with the
\* cancellation error; the first command ran to its return, the later ones
\* never ran
C29_Witness ==
    /\ exec.kind = "Serial"
    /\ NumCommands >= 2
    /\ HasReturned
    /\ exec.result = Canceled
    /\ exec.i = 2
    /\ exec.task[1].calls = 1
    /\ exec.task[1].pc = "done"
    /\ \A c \in 2..NumCommands : exec.task[c].calls = 0

(***************************************************************************)
(* C30: the write end of the pipe after stage c (not the last stage) is    *)
(* open until Run of stage c has returned and is closed from then on,      *)
(* cleanly if the stage succeeded and with the error of the stage if it    *)
(* failed.  The io.ReadAll of stage c+1 returns only after that: after a   *)
(* success it has every byte stage c wrote and no error; after a failure   *)
(* it has the error of stage c, which a reading command returns without    *)
(* writing.  So when the first of two stages fails without writing and the *)
(* second writes only what it read, the sink of the call stays empty.      *)
(***************************************************************************)
C30_ClosedOnCompletion ==
    /\ [](exec.kind = "Pipeline" =>
            /\ \A c \in 1..(NumCommands - 1) :
                  exec.pipes[c].closed =
                      IF exec.task[c].pc = "done"
                          THEN IF exec.task[c].err = NilErr
                                   THEN [state |-> "eof", err |-> NilErr]
                               ELSE [state |-> "err",
                                     err |-> exec.task[c].err]
                      ELSE Open
            /\ (NumCommands = 2 /\ cmds[1].behav = "fail" /\ Reads(2)) =>
                  exec.sink = <<>>)
    /\ [][exec.kind = "Pipeline" =>
            \A c \in 1..(NumCommands - 1) :
               (exec.task[c + 1].pc = "read" /\ exec'.task[c + 1].pc # "read")
               => /\ exec.task[c].pc = "done"
                  /\ exec.task[c].err = NilErr =>
                        /\ exec.task[c + 1].buf = exec.pipes[c].written
                        /\ exec'.task[c + 1].err = NilErr
                  /\ exec.task[c].err # NilErr =>
                        /\ exec'.task[c + 1].err = exec.task[c].err
                        /\ exec'.task[c + 1].pc = "ret"
                        /\ exec'.sink = exec.sink
                        /\ exec'.pipes = exec.pipes]_vars

\* a call with a failing first stage and a reading second stage has
\* returned: the second stage ran, failed with the error of the first, and
\* the sink is empty
C30_Witness ==
    /\ exec.kind = "Pipeline"
    /\ NumCommands = 2
    /\ cmds[1].behav = "fail"
    /\ cmds[2].behav = "read"
    /\ HasReturned
    /\ exec.task[2].calls = 1
    /\ exec.task[2].err = AppError(1)
    /\ exec.pipes[1].closed.state = "err"
    /\ exec.sink = <<>>

C32_FirstCauseWins ==
    /\ [][(/\ exec.kind = "Dispatch"
           /\ routers[0].handleSignal
           /\ routers[0].timeout > 0) =>
            /\ exec.ctx.runner # NilErr => exec'.ctx.runner = exec.ctx.runner
            /\ (/\ exec.pc \in {"execute", "running"}
                /\ exec.ctx.runner = NilErr
                /\ exec'.ctx.runner # NilErr
                /\ exec'.ctx.caller = NilErr) =>
                  /\ exec.installed /\ exec.armed
                  /\ exec'.ctx.runner \in {Canceled, DeadlineExceeded}
                  /\ exec'.ctx.runner = Canceled <=>
                        /\ exec.handler.pc = "wait1"
                        /\ exec'.handler.pc = "wait2"
                        /\ exec'.ctx.signal = Canceled
                  /\ exec'.ctx.runner = DeadlineExceeded <=>
                        /\ exec'.handler = exec.handler
                        /\ exec'.ctx.signal = exec.ctx.signal
            /\ (/\ exec.pc = "running"
                /\ exec'.pc = "deferTimeout"
                /\ cmds[1].behav = "block") =>
                  /\ exec.ctx.runner # NilErr
                  /\ exec'.result = CommandError(CmdName, exec.ctx.runner)
            /\ AfterExecute => exec'.result = exec.result]_vars
    /\ [](( /\ exec.kind = "Dispatch"
            /\ routers[0].handleSignal
            /\ routers[0].timeout > 0
            /\ AfterExecute /\ exec.called /\ cmds[1].behav = "block") =>
            /\ exec.ctx.runner \in {Canceled, DeadlineExceeded}
            /\ exec.result = CommandError(CmdName, exec.ctx.runner)
            /\ \A cause \in {Canceled, DeadlineExceeded} :
                  ErrorsIs(exec.result, cause) <=> exec.ctx.runner = cause)

\* the deadline passed while a blocking command ran, an interrupt arrived
\* after it and the handler took it: the command has returned and the
\* cause is still that of the deadline
C32_Witness ==
    /\ exec.kind = "Dispatch"
    /\ routers[0].handleSignal
    /\ routers[0].timeout > 0
    /\ cmds[1].behav = "block"
    /\ exec.pc = "deferTimeout"
    /\ exec.called
    /\ exec.interrupts = 1
    /\ exec.handler.pc = "wait2"
    /\ exec.ctx.caller = NilErr
    /\ exec.ctx.signal = Canceled
    /\ exec.ctx.runner = DeadlineExceeded
    /\ exec.result = CommandError(CmdName, DeadlineExceeded)

(***************************************************************************)
(* The function specification: the functions of the index applied to       *)
(* inputs drawn in the initial state.  last holds the input and, after the *)
(* call, its result.                                                       *)
(***************************************************************************)
\* the strings of the tests (a = 1, ..., z = 26)
Kitten == <<11, 9, 20, 20, 5, 14>>
Sitting == <<19, 9, 20, 20, 9, 14, 7>>
Saturday == <<19, 1, 20, 21, 18, 4, 1, 25>>
Sunday == <<19, 21, 14, 4, 1, 25>>
Version == <<22, 5, 18, 19, 9, 15, 14>>
Verion == <<22, 5, 18, 9, 15, 14>>
Versio == <<22, 5, 18, 19, 9, 15>>
Verify == <<22, 5, 18, 9, 6, 25>>
Help == <<8, 5, 12, 16>>
Generate == <<7, 5, 14, 5, 18, 1, 20, 5>>
Generaet == <<7, 5, 14, 5, 18, 1, 5, 20>>
Config == <<3, 15, 14, 6, 9, 7>>
Confirm == <<3, 15, 14, 6, 9, 18, 13>>
Zs == <<26, 26, 26, 26, 26, 26, 26, 26, 26, 26, 26>>

\* the strings of length at most n over the bytes 1 and 2
RECURSIVE StringsUpTo(_)
StringsUpTo(n) ==
    IF n = 0 THEN {<<>>}
    ELSE StringsUpTo(n - 1)
            \cup {Append(s, b) : s \in StringsUpTo(n - 1), b \in {1, 2}}

\* the pairs handed to levenshtein: every pair of short strings and pairs
\* of TestLevenshtein
LevInputs ==
    (StringsUpTo(MaxLen) \X StringsUpTo(MaxLen))
        \cup {<<Kitten, Sitting>>, <<Sitting, Kitten>>, <<Saturday, Sunday>>,
              <<Version, Verion>>, <<Generate, Generaet>>, <<Help, Help>>}

\* the commands registered before findSimilar is called, as (name,
\* declared aliases): the command lists of TestFindSimilar and lists of
\* commands with short names, with and without aliases
SimNames == {<<1>>, <<1, 1>>, <<2, 2, 2>>, <<1, 1, 1, 1, 1, 1>>}
SimDeclared == {<<>>, <<<<2>>, <<2, 1>>>>}
SimCommand == SimNames \X SimDeclared
SimFixtures ==
    {<<<<Version, <<>>>>, <<Verify, <<>>>>, <<Help, <<>>>>>>,
     <<<<Version, <<>>>>, <<Verify, <<>>>>, <<Help, <<>>>>,
       <<Generate, <<>>>>, <<Config, <<>>>>, <<Confirm, <<>>>>>>}
SimIndexes ==
    SimFixtures
        \cup UNION {[1..n -> SimCommand] : n \in 0..MaxCmds}

\* the strings findSimilar is asked about and the values of maxResults
SimQueries ==
    {<<>>, <<1>>, <<1, 1>>, <<2, 1>>, <<1, 1, 1, 1, 1, 1, 1, 1, 1>>,
     Verion, Versio, Help, Zs}
SimMaxResults == {-1, 0, 1, 2, 3}

\* router.Register(&aliasCommand{name, aliases}) for each command of the
\* list, from command i on; the first panic ends the registrations
RECURSIVE RegisterAll(_, _, _, _)
RegisterAll(rt, regs, i, log) ==
    IF i > Len(regs) THEN Out(rt, FALSE, log)
    ELSE LET out == Register(rt, i, regs[i][1], regs[i][2]) IN
         IF out.panic THEN Out(out.router, TRUE, log \o out.log)
         ELSE RegisterAll(out.router, regs, i + 1, log \o out.log)

\* the orders in which the names of an index are inserted: a list of
\* distinct names and a permutation of its positions
OrderNames == {<<1>>, <<1, 1>>, <<1, 2>>, <<1, 1, 2>>, <<2>>, <<2, 1>>}
Injective(f) == \A i, j \in DOMAIN f : f[i] = f[j] => i = j
OrderInputs ==
    UNION {{<<names, perm>> :
               names \in {f \in [1..n -> OrderNames] : Injective(f)},
               perm \in {g \in [1..n -> 1..n] : Injective(g)}} :
           n \in 0..MaxOrder}

\* root.insert(name, cmd) for the names in the order given by perm; the
\* command of names[k] is command k
RECURSIVE InsertAll(_, _, _, _)
InsertAll(n, names, perm, i) ==
    IF i > Len(perm) THEN [panic |-> FALSE, node |-> n]
    ELSE LET ins == insert(n, names[perm[i]], perm[i]) IN
         IF ins.panic THEN ins
         ELSE InsertAll(ins.node, names, perm, i + 1)

FnInit ==
    /\ exec = Idle
    /\ \/ /\ routers = [r \in {0} |-> New(0, <<>>, SerialRunner, FALSE, 0)]
          /\ cmds = <<>>
          /\ inserted = [r \in {0} |-> <<>>]
          /\ \E in \in LevInputs :
                last = [op |-> "input", fn |-> "levenshtein",
                        a |-> in[1], b |-> in[2]]
       \/ \E regs \in SimIndexes, name \in SimQueries,
             maxResults \in SimMaxResults :
             LET out == RegisterAll(New(0, <<>>, SerialRunner, FALSE, 0),
                                    regs, 1, <<>>)
             IN  /\ ~out.panic
                 /\ Len(out.log) <= MaxNames \/ regs \in SimFixtures
                 /\ routers = [r \in {0} |-> out.router]
                 /\ cmds = [i \in 1..Len(regs) |->
                              Leaf(regs[i][1], regs[i][2], FALSE, "ok")]
                 /\ inserted = [r \in {0} |-> out.log]
                 /\ last = [op |-> "input", fn |-> "findSimilar",
                            name |-> name, maxResults |-> maxResults]
       \/ /\ routers = [r \in {0} |-> New(0, <<>>, SerialRunner, FALSE, 0)]
          /\ inserted = [r \in {0} |-> <<>>]
          /\ \E in \in OrderInputs :
                /\ cmds = [i \in 1..Len(in[1]) |->
                             Leaf(in[1][i], <<>>, FALSE, "ok")]
                /\ last = [op |-> "input", fn |-> "insert",
                           names |-> in[1], perm |-> in[2]]

\* levenshtein(a, b)
ApplyLevenshtein ==
    /\ last.op = "input"
    /\ last.fn = "levenshtein"
    /\ last' = [op |-> "levenshtein", a |-> last.a, b |-> last.b,
                res |-> levenshtein(last.a, last.b)]
    /\ UNCHANGED <<routers, cmds, inserted, exec>>

\* r.root.findSimilar(name, maxResults)
ApplyFindSimilar ==
    /\ last.op = "input"
    /\ last.fn = "findSimilar"
    /\ last' = [op |-> "findSimilar", name |-> last.name,
                maxResults |-> last.maxResults,
                res |-> findSimilar(routers[0].root, last.name,
                                    last.maxResults)]
    /\ UNCHANGED <<routers, cmds, inserted, exec>>

\* the names inserted into an empty root in the order of the list and in
\* the order of the permutation
ApplyInsert ==
    /\ last.op = "input"
    /\ last.fn = "insert"
    /\ LET id == [i \in 1..Len(last.names) |-> i] IN
       last' = [op |-> "insert", names |-> last.names, perm |-> last.perm,
                first |-> InsertAll(EmptyNode, last.names, id, 1),
                second |-> InsertAll(EmptyNode, last.names, last.perm, 1)]
    /\ UNCHANGED <<routers, cmds, inserted, exec>>

FnNext ==
    \/ ApplyLevenshtein
    \/ ApplyFindSimilar
    \/ ApplyInsert

SpecFn == FnInit /\ [][FnNext]_vars

(***************************************************************************)
(* Vocabulary of the properties of findSimilar.                            *)
(***************************************************************************)
\* the names of the commands registered in the index of router 0
CommandNames == {Name(inserted[0][i].cmd) : i \in 1..Len(inserted[0])}

\* the names of the commands findSimilar returned
Similar == [i \in 1..Len(last.res) |-> Name(last.res[i])]

\* the registered command names within the threshold of the query
Close ==
    {n \in CommandNames :
        levenshtein(last.name, n) <= Max(2, Len(last.name) \div 3)}

\* x comes strictly before y in the order of the suggestions
Closer(x, y) ==
    \/ levenshtein(last.name, x) < levenshtein(last.name, y)
    \/ /\ levenshtein(last.name, x) = levenshtein(last.name, y)
       /\ StrLess(x, y)

(***************************************************************************)
(* C33: findSimilar(name, maxResults) returns nothing for an empty name or *)
(* a maxResults that is not positive; otherwise it returns exactly the     *)
(* registered command names within distance max(2, len(name)/3) of name,   *)
(* each once, in ascending order of distance and then of name, cut to the  *)
(* first maxResults of them.  With version, verify and help registered,    *)
(* findSimilar("verion", 3) is [version, verify].                          *)
(***************************************************************************)
C33_ExactlyTheCloseNames ==
    last.op = "findSimilar" =>
        /\ (last.name = <<>> \/ last.maxResults <= 0) => Similar = <<>>
        /\ (last.name # <<>> /\ last.maxResults > 0) =>
              /\ Len(Similar) = Min(last.maxResults, Cardinality(Close))
              /\ \A i \in 1..Len(Similar) : Similar[i] \in Close
              /\ \A i, j \in 1..Len(Similar) :
                    i < j => Closer(Similar[i], Similar[j])
              /\ \A n \in Close :
                    (\A i \in 1..Len(Similar) : Similar[i] # n) =>
                        \A i \in 1..Len(Similar) : Closer(Similar[i], n)
        /\ (/\ CommandNames = {Version, Verify, Help}
            /\ last.name = Verion
            /\ last.maxResults = 3) => Similar = <<Version, Verify>>

(***************************************************************************)
(* Vocabulary of the properties of levenshtein.                            *)
(***************************************************************************)
\* the strings one deletion, one substitution or one insertion away from
\* s, over the bytes 1 and 2 and of length at most n
Edits(s, n) ==
    {Take(s, i - 1) \o Drop(s, i) : i \in 1..Len(s)}
        \cup {[s EXCEPT ![i] = c] : i \in 1..Len(s), c \in {1, 2}}
        \cup (IF Len(s) < n
                THEN {Take(s, i) \o <<c>> \o Drop(s, i) :
                         i \in 0..Len(s), c \in {1, 2}}
              ELSE {})

\* the number of rounds of single edits after which b is reached
RECURSIVE EditSteps(_, _, _, _)
EditSteps(reached, b, n, k) ==
    IF b \in reached THEN k
    ELSE EditSteps(reached \cup UNION {Edits(s, n) : s \in reached},
                   b, n, k + 1)

\* the least number of single-character insertions, deletions and
\* substitutions that turn a into b (strings over the bytes 1 and 2)
EditDistance(a, b) == EditSteps({a}, b, Max(Len(a), Len(b)), 0)

(***************************************************************************)
(* C34: levenshtein(a, b) is the least number of single-character          *)
(* insertions, deletions and substitutions that turn a into b, for all     *)
(* strings of bounded length over two letters, the empty string included;  *)
(* levenshtein(a, b) = levenshtein(b, a); levenshtein(a, b) = 0 exactly    *)
(* when a = b; and levenshtein("kitten", "sitting") = 3 (with the other    *)
(* values of the test table).                                              *)
(***************************************************************************)
C34_MinimalEdits ==
    last.op = "levenshtein" =>
        /\ (last.a \in StringsUpTo(MaxLen) /\ last.b \in StringsUpTo(MaxLen))
              => last.res = EditDistance(last.a, last.b)
        /\ last.res = levenshtein(last.b, last.a)
        /\ last.res = 0 <=> last.a = last.b
        /\ (last.a = Kitten /\ last.b = Sitting) => last.res = 3
        /\ (last.a = Sitting /\ last.b = Kitten) => last.res = 3
        /\ (last.a = Saturday /\ last.b = Sunday) => last.res = 3
        /\ (last.a = Version /\ last.b = Verion) => last.res = 1
        /\ (last.a = Generate /\ last.b = Generaet) => last.res = 2

\* levenshtein("kitten", "sitting") has returned 3
C34_Witness ==
    /\ last.op = "levenshtein"
    /\ last.a = Kitten
    /\ last.b = Sitting
    /\ last.res = 3

(***************************************************************************)
(* Vocabulary of the properties of the alias table.                        *)
(***************************************************************************)
\* the aliases of a declared list that are neither empty nor the name of
\* the command, in the order of the list
RECURSIVE Usable(_, _)
Usable(name, aliases) ==
    IF aliases = <<>> THEN <<>>
    ELSE (IF aliases[1] = <<>> \/ aliases[1] = name THEN <<>>
          ELSE <<aliases[1]>>) \o Usable(name, Tail(aliases))

\* command c was registered by a call that returned
RegisteredOk(c) == ~(IsRegistration /\ last.panic /\ last.cmd = c)

\* every alias recorded in the table resolves to the command its primary
\* name resolves to
TableResolves ==
    \A primary \in DOMAIN routers[0].aliases :
       \A k \in 1..Len(routers[0].aliases[primary]) :
          /\ Lookup(0, primary).found
          /\ Lookup(0, routers[0].aliases[primary][k]) = Lookup(0, primary)

RECURSIVE WellFormed(_, _)
WellFormed(n, isRoot) ==
    /\ n.command # 0 <=> n.isEnd
    /\ ~isRoot => /\ n.prefix # <<>>
                  /\ ~n.isEnd => Cardinality(DOMAIN n.children) >= 2
    /\ \A k \in DOMAIN n.children :
          /\ n.children[k].prefix # <<>>
          /\ n.children[k].prefix[1] = k
          /\ WellFormed(n.children[k], FALSE)

\* the terminal nodes of the subtree at n, one element per node: the
\* concatenation of the edge labels from the root and the command held;
\* path is the concatenation down to the parent of n
RECURSIVE Terminals(_, _)
RECURSIVE TerminalsBelow(_, _, _)
Terminals(n, path) ==
    (IF n.isEnd THEN <<[name |-> path \o n.prefix, cmd |-> n.command]>>
     ELSE <<>>)
        \o TerminalsBelow(n, path \o n.prefix, SortedKeys(DOMAIN n.children))

TerminalsBelow(n, path, keys) ==
    IF keys = <<>> THEN <<>>
    ELSE Terminals(n.children[keys[1]], path)
            \o TerminalsBelow(n, path, Tail(keys))

(***************************************************************************)
(* C36: after every sequence of inserts the index is well formed: a child  *)
(* is stored under the first byte of its own edge label (so a node has at  *)
(* most one child per first byte); a node holds a command reference if and *)
(* only if it is terminal; the terminal nodes, by the concatenation of the *)
(* edge labels from the root, are exactly the inserted names, one node per *)
(* name, each holding the command inserted under the name; no node other   *)
(* than the root has an empty edge label and every non-terminal node other *)
(* than the root has at least two children.                                *)
(***************************************************************************)
C36_TreeWellFormed ==
    \A r \in DOMAIN routers :
       LET ts == Terminals(routers[r].root, <<>>) IN
       /\ WellFormed(routers[r].root, TRUE)
       /\ \A i, j \in 1..Len(ts) : ts[i].name = ts[j].name => i = j
       /\ {ts[i] : i \in 1..Len(ts)}
             = {inserted[r][i] : i \in 1..Len(inserted[r])}
       /\ Len(ts) = Len(inserted[r])

\* an index after splits: below the root there is a node that is not
\* terminal and has two children, and a terminal node that has children
C36_Witness ==
    LET root == routers[0].root IN
    /\ \E k \in DOMAIN root.children :
          /\ ~root.children[k].isEnd
          /\ Cardinality(DOMAIN root.children[k].children) >= 2
    /\ \E k \in DOMAIN root.children :
          \E m \in DOMAIN root.children[k].children :
             /\ root.children[k].children[m].isEnd
             /\ DOMAIN root.children[k].children[m].children # {}

(***************************************************************************)
(* C37: with signal handling enabled the process exits through the         *)
(* handler only after two interrupts were delivered: when the process has  *)
(* exited, at least two interrupts arrived during the dispatch and the     *)
(* second receive of the handler took an interrupt from the channel.       *)
(***************************************************************************)
C37_ExitNeedsTwoInterrupts ==
    (exec.kind = "Dispatch" /\ exec.exit.exited) =>
        /\ exec.interrupts >= 2
        /\ ~exec.exit.phantom

(***************************************************************************)
(* C38: the index does not depend on the order of the inserts: a list of   *)
(* distinct names inserted in the order of the list and in any other order *)
(* gives the same tree (nodes, edge labels, terminal marks, commands),     *)
(* hence the same search result and the same findSimilar result for every  *)
(* query.                                                                  *)
(***************************************************************************)
C38_OrderIndependent ==
    last.op = "insert" =>
        /\ ~last.first.panic
        /\ ~last.second.panic
        /\ last.first.node = last.second.node
        /\ \A q \in OrderNames \cup {<<>>, <<2, 2>>} :
              /\ search(last.first.node, q) = search(last.second.node, q)
              /\ \A m \in {1, 3} :
                    findSimilar(last.first.node, q, m)
                        = findSimilar(last.second.node, q, m)
        /\ \A k \in 1..Len(last.names) :
              search(last.second.node, last.names[k])
                  = [cmd |-> k, found |-> TRUE]

\* three names that share prefixes, inserted in the order of the list and
\* in the reverse order: the tree has an inner node made by a split
C38_Witness ==
    /\ last.op = "insert"
    /\ Len(last.names) = 3
    /\ last.perm = <<3, 2, 1>>
    /\ last.first.node = last.second.node
    /\ \E k \in DOMAIN last.first.node.children :
          /\ ~last.first.node.children[k].isEnd
          /\ Cardinality(DOMAIN last.first.node.children[k].children) = 2
    /\ last.names[1] = <<1, 1, 2>>

(***************************************************************************)
(* C39: the suggestions of a CommandNotFoundError are pairwise distinct    *)
(* names, also when commands are registered with aliases.                  *)
(***************************************************************************)
C39_SuggestionsDistinct ==
    (last.op = "RunContext"
        /\ last.res.err.kind = "CommandNotFoundError") =>
        \A i, j \in 1..Len(last.res.err.Suggestions) :
           last.res.err.Suggestions[i] = last.res.err.Suggestions[j] => i = j

(***************************************************************************)
(* C40.  ConcurrentRunner.Execute is deadlock-free: for every number of    *)
(* commands and every MaxWorkers >= 1, when Run of each command returns,   *)
(* every worker waiting in its select takes a slot or observes the         *)
(* cancellation, every slot taken is released, and Execute returns, with   *)
(* ctx cancelled in the meantime or not.                                   *)
(***************************************************************************)
Limited == exec.kind = "Concurrent" /\ exec.MaxWorkers >= 1

AtSelect(c) == Limited /\ c <= NumCommands /\ exec.task[c].pc = "select"

HoldsSlot(c) == Limited /\ c <= NumCommands /\ exec.task[c].pc = "running"

PastSelect(c) == c <= NumCommands /\ exec.task[c].pc \in {"running", "done"}

Released(c) == c <= NumCommands /\ exec.task[c].pc = "done"

\* C40: under the fair scheduling of the goroutines, a worker at its select
\* leaves it, a worker holding a slot gives it back, the call returns, and
\* at the return no slot is held
C40_DeadlockFree ==
    /\ \A c \in 1..MaxCommands : AtSelect(c) ~> PastSelect(c)
    /\ \A c \in 1..MaxCommands : HoldsSlot(c) ~> Released(c)
    /\ Limited ~> (exec.main = "returned")
    /\ [](Limited /\ exec.main = "returned" => exec.sem = 0)

\* a call with one slot and three commands has returned after a
\* cancellation: one worker ran its command, one left its select on
\* ctx.Done(), and the slot is free
C40_Witness ==
    /\ Limited
    /\ exec.MaxWorkers = 1
    /\ NumCommands = 3
    /\ exec.canceled
    /\ exec.main = "returned"
    /\ exec.sem = 0
    /\ exec.i > NumCommands
    /\ \E c, d \in 1..NumCommands :
          /\ exec.task[c].pc = "done" /\ exec.task[c].calls = 1
          /\ exec.task[d].pc = "done" /\ exec.task[d].calls = 0

====
